---- MODULE Spec2Model ----
(***************************************************************************)
(* A model of reo, the SODG-based virtual machine for EO programs.         *)
(*                                                                         *)
(* Two generations of the Universe live in the sources and both are        *)
(* modelled here, each under its own specification:                        *)
(*                                                                         *)
(*   Spec       the dataization engine of src/universe.rs (fnd, dd, pf,    *)
(*              apply, pull, push, up, down, tie) working on a Sodg graph  *)
(*              store; the variables g, alerts, atoms, depth.              *)
(*   SpecStore  the self-contained graph store of src/universe/i_add.rs,   *)
(*              i_bind.rs and i_atom.rs; the variables vertices, edges,    *)
(*              registry.                                                  *)
(*                                                                         *)
(* Labels are written in ASCII: "Delta" for the label Δ, "lambda" for λ,   *)
(* "pi" for π, "phi" for φ, "gamma" for γ, "rho" for ρ, "sigma" for σ,     *)
(* "psi" for ψ, "xi" for ξ, "eps" for ε, "beta" for β, "alpha0"/"alpha1"   *)
(* for α0/α1 and "Phi" for Φ.  Every other label is a user (ASCII) name.   *)
(***************************************************************************)
EXTENDS Integers, Sequences, FiniteSets, TLC

VARIABLES
    g,          \* Universe.g: the Sodg graph, [kids, data]
    alerts,     \* TRUE when the π/φ alert of Universe::empty() is installed on g
    atoms,      \* Universe.atoms: the names registered
    depth,      \* Universe.depth
    hist,       \* history: the ids at construction, the ids allocated since, in
                \* order, every edge ever bound, whether an add met a duplicate,
                \* the atoms invoked, in order, each with its vertex
    last,       \* the latest public call on the Universe and its outcome
    calls,      \* number of calls made so far
    alive,      \* FALSE once a public call panicked or overflowed the stack
    vertices,   \* (old store) Universe.vertices: id -> Vertex
    edges,      \* (old store) Universe.edges: id -> Edge
    registry,   \* (old store) Universe.atoms: the names registered
    res,        \* (old store) the latest call and its outcome
    gmi,        \* Gmi.vars and the course of the deployment of a script
    file,       \* what Universe::save wrote
    cli,        \* the dataize command of the reo binary: where it is, its dump
    cut,        \* the latest Universe::slice: its locator and the graph it returned
    walk        \* (old store) a find in progress: the variables of its loop

vars == <<g, alerts, atoms, depth, hist, last, calls, alive,
          vertices, edges, registry, res, gmi, file, cli, cut, walk>>

toolVars == <<gmi, file, cli, cut, walk>>

engineVars == <<g, alerts, atoms, depth, hist, last, alive>>

storeVars == <<vertices, edges, registry, res>>

(***************************************************************************)
(* Bounds of the model.                                                    *)
(***************************************************************************)
\* public calls made on one Universe
MaxCalls == 2

\* vertices a caller creates with add() on one Universe
MaxAdd == 3

\* nested calls the stack of the process holds before it overflows
MaxStack == 21

\* calls made on one old-store Universe
MaxOps == 2

\* the lines of a script
MaxLines == 3

\* the recursion limit of the commented-out check, "if self.depth > 20"
RecursionLimit == 20

\* the steps a find of universe/dataize.rs takes before it gives up
JumpsLimit == 200

(***************************************************************************)
(* Values.                                                                 *)
(***************************************************************************)
\* Option<u32>::None
NoVertex == -1

\* Option<Hex>::None and Some(bytes)
NoData == [some |-> FALSE, bytes |-> <<>>]

SomeData(b) == [some |-> TRUE, bytes |-> b]

Max(a, b) == IF a > b THEN a ELSE b

\* one token of a locator: ν<n> or a label
Nu(n) == [t |-> "nu", n |-> n, a |-> ""]

At(a) == [t |-> "a", n |-> 0, a |-> a]

\* Hex::from_str_bytes for the atom names in use
FromStrBytes(s) ==
    CASE s = "inc" -> <<105, 110, 99>>
      [] s = "len" -> <<108, 101, 110>>
      [] s = "org.eolang.int$plus" -> <<105, 110, 116, 36, 112, 108, 117, 115>>
      [] OTHER -> <<63>>

AtomNames == {"inc", "len"}

\* the atoms of org::eolang::int
EoAtomNames == {"org.eolang.int$plus"}

\* Hex::to_utf8: the text the bytes encode; a byte above 0xF4 is never valid
\* UTF-8, and text that is no atom name is the name "?"
ValidUtf8(b) == \A i \in DOMAIN b : b[i] < 245

ToUtf8(b) ==
    IF \E s \in AtomNames \cup EoAtomNames : FromStrBytes(s) = b
    THEN CHOOSE s \in AtomNames \cup EoAtomNames : FromStrBytes(s) = b
    ELSE "?"

\* Hex::from(i64): 8 bytes, big-endian, two's complement; the model keeps
\* to integers of at most three significant bytes
I64ToBytes(i) ==
    LET u == IF i >= 0 THEN i ELSE i + 16777216
        f == IF i >= 0 THEN 0 ELSE 255
    IN  <<f, f, f, f, f, (u \div 65536) % 256, (u \div 256) % 256, u % 256>>

\* Hex::to_i64 is defined on 8 bytes only
CanI64(b) == Len(b) = 8

BytesToI64(b) ==
    LET u == b[6] * 65536 + b[7] * 256 + b[8]
    IN  IF b[1] >= 128 THEN u - 16777216 ELSE u

\* str::is_ascii on a label
GreekLabels == {"Delta", "lambda", "pi", "phi", "gamma", "rho", "sigma", "psi",
                "xi", "eps", "beta", "alpha0", "alpha1", "Phi"}

IsAscii(a) == a \notin GreekLabels

\* a.starts_with('α') and the index that follows
IsAlpha(a) == a \in {"alpha0", "alpha1"}

AlphaIndex(a) == IF a = "alpha0" THEN 0 ELSE 1

(***************************************************************************)
(* The Sodg graph store, as the engine uses it.  A graph is a record       *)
(* [kids, data]: kids[v] is the sequence of the <<label, target>> edges of *)
(* v in the order they were bound, data[v] the datum of v.                 *)
(***************************************************************************)
\* Sodg::empty
SodgEmpty == [kids |-> [v \in {} |-> <<>>], data |-> [v \in {} |-> NoData]]

\* Sodg::ids
Ids(gr) == DOMAIN gr.kids

\* Sodg::is_empty
IsEmpty(gr) == Ids(gr) = {}

\* Sodg::kids of an existing vertex
Kids(gr, v) == gr.kids[v]

Labels(gr, v) == {Kids(gr, v)[i][1] : i \in DOMAIN Kids(gr, v)}

\* Sodg::kid: the target of the edge a of v, or None
Kid(gr, v, a) ==
    IF v \in Ids(gr) /\ a \in Labels(gr, v)
    THEN LET i == CHOOSE j \in DOMAIN Kids(gr, v) : Kids(gr, v)[j][1] = a
         IN  Kids(gr, v)[i][2]
    ELSE NoVertex

\* the edges of a graph, each as <<source, label, target>>
EdgesOf(gr) ==
    UNION {{<<v, Kids(gr, v)[i][1], Kids(gr, v)[i][2]>> : i \in DOMAIN Kids(gr, v)} :
              v \in Ids(gr)}

\* Sodg::next_id: ids grow, 0 is the first
NextId(gr) ==
    IF IsEmpty(gr) THEN 0
    ELSE (CHOOSE m \in Ids(gr) : \A v \in Ids(gr) : v <= m) + 1

\* Sodg::add: [ok, g]; fails on a vertex that exists
SodgAdd(gr, v) ==
    IF v \in Ids(gr) THEN [ok |-> FALSE, g |-> gr]
    ELSE [ok |-> TRUE,
          g |-> [kids |-> [w \in Ids(gr) \cup {v} |->
                              IF w = v THEN <<>> ELSE gr.kids[w]],
                 data |-> [w \in Ids(gr) \cup {v} |->
                              IF w = v THEN NoData ELSE gr.data[w]]]]

\* the alert that Universe::empty installs: no vertex of vx has both π and φ
AlertErrors(gr, vx) ==
    {v \in vx : {"pi", "phi"} \subseteq Labels(gr, v)}

\* Sodg::bind: [ok, g]; fails on a missing endpoint, on a label that is bound
\* already and on an alert
SodgBind(gr, al, v1, v2, a) ==
    IF v1 \notin Ids(gr) \/ v2 \notin Ids(gr) THEN [ok |-> FALSE, g |-> gr]
    ELSE IF a \in Labels(gr, v1) THEN [ok |-> FALSE, g |-> gr]
    ELSE LET g2 == [gr EXCEPT !.kids[v1] = Append(@, <<a, v2>>)]
         IN  IF al /\ AlertErrors(g2, {v1, v2}) # {}
             THEN [ok |-> FALSE, g |-> gr]
             ELSE [ok |-> TRUE, g |-> g2]

\* Sodg::put: [ok, g]; replaces the datum
SodgPut(gr, v, d) ==
    IF v \notin Ids(gr) THEN [ok |-> FALSE, g |-> gr]
    ELSE [ok |-> TRUE, g |-> [gr EXCEPT !.data[v] = SomeData(d)]]

\* Sodg::data: [ok, bytes]; fails on a missing vertex and on a missing datum
SodgData(gr, v) ==
    IF v \notin Ids(gr) \/ ~gr.data[v].some THEN [ok |-> FALSE, bytes |-> <<>>]
    ELSE [ok |-> TRUE, bytes |-> gr.data[v].bytes]

(***************************************************************************)
(* The engine.  Its procedures change the Universe while they run, so each *)
(* takes the Universe u = [g, al, atoms, depth, peak, hist] and returns    *)
(* [u, st, v]: the Universe it leaves, the status ("Ok", "Err" for an      *)
(* Err(..) result, "Panic" for a failed unwrap, "Overflow" when the stack  *)
(* of the process is exhausted) and the value.  u.peak is the highest      *)
(* depth seen, n the number of nested calls the stack still holds.         *)
(***************************************************************************)
Ret(u, st, v) == [u |-> u, st |-> st, v |-> v]

\* the ? of Rust: a result that is not Ok leaves the procedure, an Ok one
\* goes on to the rest of it
Try(r, F(_)) == IF r.st = "Ok" THEN F(r) ELSE r

\* unwrap(): an Err panics
Unwrap(r) == IF r.st = "Err" THEN Ret(r.u, "Panic", r.v) ELSE r

\* g.add(v) on the graph of u, recorded in the history
GAdd(u, v) ==
    LET r == SodgAdd(u.g, v)
    IN  IF r.ok
        THEN Ret([u EXCEPT !.g = r.g, !.hist.alloc = Append(@, v)], "Ok", v)
        ELSE Ret([u EXCEPT !.hist.dup = TRUE], "Err", v)

\* g.bind(v1, v2, a) on the graph of u, recorded in the history
GBind(u, v1, v2, a) ==
    LET r == SodgBind(u.g, u.al, v1, v2, a)
    IN  IF r.ok
        THEN Ret([u EXCEPT !.g = r.g, !.hist.bound = @ \cup {<<v1, a, v2>>}],
                 "Ok", NoVertex)
        ELSE Ret(u, "Err", NoVertex)

\* g.put(v, d) on the graph of u
GPut(u, v, d) ==
    LET r == SodgPut(u.g, v, d)
    IN  IF r.ok THEN Ret([u EXCEPT !.g = r.g], "Ok", NoVertex)
        ELSE Ret(u, "Err", NoVertex)

enter_it(u) == [u EXCEPT !.depth = @ + 1, !.peak = Max(@, u.depth + 1)]

exit_it(u) == [u EXCEPT !.depth = IF @ > 0 THEN @ - 1 ELSE @]

\* the exit! macro at the end of a procedure that returns Ok(r.v)
Leaving(r) == Ret(exit_it(r.u), "Ok", r.v)

\* Universe::nil: exactly one edge, and it is ρ
nil(u, v) == Len(Kids(u.g, v)) = 1 /\ Labels(u.g, v) = {"rho"}

\* Universe::tie: the label of v under which an edge a of a copy goes
RECURSIVE tie(_, _, _)
\* a tie that lets a copy take a slot whatever it points to
tie_over_taken(u, v, a) ==
    IF a = "rho" \/ a = "sigma" THEN Ret(u, "Ok", a)
    ELSE IF a = "Delta" /\ Kid(u.g, v, a) = NoVertex THEN Ret(u, "Ok", a)
    ELSE IF Kid(u.g, v, a) # NoVertex THEN Ret(u, "Ok", a)
    ELSE IF IsAlpha(a)
         THEN LET ascii == SelectSeq(Kids(u.g, v), LAMBDA e : IsAscii(e[1]))
              IN  IF AlphaIndex(a) + 1 > Len(ascii) THEN Ret(u, "Panic", a)
                  ELSE tie(u, v, ascii[AlphaIndex(a) + 1][1])
    ELSE Ret(u, "Err", a)

tie(u, v, a) ==
    IF a = "rho" \/ a = "sigma" THEN Ret(u, "Ok", a)
    ELSE IF a = "Delta" /\ Kid(u.g, v, a) = NoVertex THEN Ret(u, "Ok", a)
    ELSE IF Kid(u.g, v, a) # NoVertex /\ nil(u, Kid(u.g, v, a))
         THEN Ret(u, "Ok", a)
    ELSE IF IsAlpha(a)
         THEN LET ascii == SelectSeq(Kids(u.g, v), LAMBDA e : IsAscii(e[1]))
              IN  IF AlphaIndex(a) + 1 > Len(ascii) THEN Ret(u, "Panic", a)
                  ELSE tie(u, v, ascii[AlphaIndex(a) + 1][1])
    ELSE Ret(u, "Err", a)

\* a down that rebinds the label of v1 when v1 has it already
down_rebinding(u, v1, v2, a) ==
    Try(tie(u, v1, a),
        LAMBDA t : GBind([u EXCEPT !.g.kids[v1] =
                                SelectSeq(@, LAMBDA e : e[1] # t.v)],
                         v1, v2, t.v))

\* Universe::down
down(u, v1, v2, a) ==
    Try(tie(u, v1, a), LAMBDA t : GBind(u, v1, v2, t.v))

\* an up that binds every edge of the exemplar to its target itself
up_without_trampoline(u, v1, v2, a) ==
    IF v2 \notin Ids(u.g) THEN Ret(u, "Err", NoVertex)
    ELSE GBind(u, v1, v2, a)

\* Universe::up
up(u, v1, v2, a) ==
    IF v2 \notin Ids(u.g) THEN Ret(u, "Err", NoVertex)
    ELSE IF a \in {"lambda", "Delta", "rho"} \/ nil(u, v2)
    THEN GBind(u, v1, v2, a)
    ELSE Try(GAdd(u, NextId(u.g)), LAMBDA nv :
         Try(GBind(nv.u, v1, nv.v, a), LAMBDA b1 :
         Try(GBind(b1.u, nv.v, v1, "rho"), LAMBDA b2 :
         Try(GBind(b2.u, nv.v, v1, "psi"), LAMBDA b3 :
             GBind(b3.u, nv.v, v2, "pi")))))

\* the loop of Universe::pull over the edges ks of the exemplar, from the i-th
RECURSIVE pull_from(_, _, _, _)
pull_from(u, v1, ks, i) ==
    IF i > Len(ks) THEN Ret(u, "Ok", NoVertex)
    ELSE IF ks[i][1] \in {"sigma", "beta", "pi"} THEN pull_from(u, v1, ks, i + 1)
    ELSE Try(up(u, v1, ks[i][2], ks[i][1]),
             LAMBDA r : pull_from(r.u, v1, ks, i + 1))

\* Universe::pull
pull(u, v1, v2) ==
    IF v2 \notin Ids(u.g) THEN Ret(u, "Err", NoVertex)
    ELSE pull_from(u, v1, Kids(u.g, v2), 1)

\* the loop of Universe::push over the edges ks of the copy, from the i-th
RECURSIVE push_from(_, _, _, _)
\* a push that leaves the Δ of the copy behind
push_from_without_data(u, v1, ks, i) ==
    IF i > Len(ks) THEN Ret(u, "Ok", NoVertex)
    ELSE IF ks[i][1] \in {"pi", "psi", "Delta"} THEN push_from(u, v1, ks, i + 1)
    ELSE Try(down(u, v1, ks[i][2], ks[i][1]),
             LAMBDA r : push_from(r.u, v1, ks, i + 1))

push_from(u, v1, ks, i) ==
    IF i > Len(ks) THEN Ret(u, "Ok", NoVertex)
    ELSE IF ks[i][1] \in {"pi", "psi"} THEN push_from(u, v1, ks, i + 1)
    ELSE Try(down(u, v1, ks[i][2], ks[i][1]),
             LAMBDA r : push_from(r.u, v1, ks, i + 1))

\* Universe::push
push(u, v1, v2) ==
    IF v2 \notin Ids(u.g) THEN Ret(u, "Err", NoVertex)
    ELSE push_from(u, v1, Kids(u.g, v2), 1)

\* Universe::apply: enter! and then depth += 1 once more, one exit!
apply(u, v1, v2) ==
    Try(GAdd([enter_it(u) EXCEPT !.depth = @ + 1, !.peak = Max(@, u.depth + 2)],
             NextId(u.g)), LAMBDA nv :
    Try(pull(nv.u, nv.v, v1), LAMBDA r1 :
    Try(push(r1.u, nv.v, v2), LAMBDA r2 :
        Ret(exit_it(r2.u), "Ok", nv.v))))

\* the ψ that Universe::dd goes on with: ν.ψ if there is one
psi_of(u, v, psi) ==
    IF Kid(u.g, v, "psi") # NoVertex THEN Kid(u.g, v, "psi") ELSE psi

RECURSIVE fnd(_, _, _, _, _), pf(_, _, _, _, _), dd(_, _, _, _),
          call_atom(_, _, _), sodg_find(_, _, _, _), find(_, _, _),
          dataize(_, _, _)

\* an add that takes the number of vertices for the next id
uni_add_counting(u) ==
    Unwrap(GAdd(u, Cardinality(Ids(u.g))))

\* Universe::add, as an atom calls it: unwraps
uni_add(u) ==
    Unwrap(GAdd(u, NextId(u.g)))

\* Universe::bind, as an atom calls it: unwraps
uni_bind(u, v1, v2, a) ==
    Unwrap(GBind(u, v1, v2, a))

\* Universe::put, as an atom calls it: unwraps
uni_put(u, v, d) ==
    Unwrap(GPut(u, v, d))

\* the atom inc of the tests: ρ + 1 in two fresh vertices
inc(u, v, n) ==
    Try(dataize(u, <<Nu(v), At("rho")>>, n), LAMBDA rho :
        IF ~CanI64(rho.v) THEN Ret(rho.u, "Err", NoVertex)
        ELSE Try(uni_add(rho.u), LAMBDA a1 :
             Try(uni_add(a1.u), LAMBDA a2 :
             Try(uni_bind(a2.u, a1.v, a2.v, "Delta"), LAMBDA b :
             Try(uni_put(b.u, a2.v, I64ToBytes(BytesToI64(rho.v) + 1)), LAMBDA p :
                 Ret(p.u, "Ok", a1.v))))))

\* copy_of_int: the integer in two fresh vertices, ν(new) -Δ-> ν(new+1)
copy_of_int(u, i) ==
    Try(uni_add(u), LAMBDA a1 :
    Try(uni_add(a1.u), LAMBDA a2 :
    Try(uni_bind(a2.u, a1.v, a2.v, "Delta"), LAMBDA b :
    Try(uni_put(b.u, a2.v, I64ToBytes(i)), LAMBDA p :
        Ret(p.u, "Ok", a1.v)))))

int_plus_of_rho_twice(u, v, n) ==
    Try(dataize(u, <<Nu(v), At("rho")>>, n), LAMBDA rho :
        IF ~CanI64(rho.v) THEN Ret(rho.u, "Err", NoVertex)
        ELSE copy_of_int(rho.u, BytesToI64(rho.v) + BytesToI64(rho.v)))

\* int_plus of org/eolang/int.rs
int_plus(u, v, n) ==
    Try(dataize(u, <<Nu(v), At("rho")>>, n), LAMBDA rho :
        IF ~CanI64(rho.v) THEN Ret(rho.u, "Err", NoVertex)
        ELSE Try(dataize(rho.u, <<Nu(v), At("alpha0")>>, n), LAMBDA x :
             IF ~CanI64(x.v) THEN Ret(x.u, "Err", NoVertex)
             ELSE copy_of_int(x.u, BytesToI64(rho.v) + BytesToI64(x.v))))

\* the atom array_length: not implemented yet
array_length(u, v) == Ret(u, "Err", NoVertex)

\* the history takes note of the atom that is about to run on v
Called(u, name, v) == [u EXCEPT !.hist.called = Append(@, <<name, v>>)]

\* the atom of ν.λ: its name is read, looked up among the atoms and called
call_atom(u, v, n) ==
    LET d == SodgData(u.g, Kid(u.g, v, "lambda"))
    IN  IF ~d.ok \/ ~ValidUtf8(d.bytes) THEN Ret(u, "Err", NoVertex)
        ELSE IF ToUtf8(d.bytes) \notin u.atoms THEN Ret(u, "Panic", NoVertex)
        ELSE IF n = 0 THEN Ret(u, "Overflow", NoVertex)
        ELSE IF ToUtf8(d.bytes) = "inc" THEN inc(Called(u, "inc", v), v, n - 1)
        ELSE IF ToUtf8(d.bytes) = "org.eolang.int$plus"
            THEN int_plus(Called(u, "org.eolang.int$plus", v), v, n - 1)
        ELSE array_length(Called(u, ToUtf8(d.bytes), v), v)

\* a fnd that goes on to pf with the ψ of the vertex it was given
fnd_keeping_psi(u, v, a, psi, n) ==
    IF n = 0 THEN Ret(u, "Overflow", NoVertex)
    ELSE Try(dd(enter_it(u), v, psi, n - 1), LAMBDA r1 :
         Try(pf(r1.u, r1.v, a, psi_of(u, v, psi), n - 1), Leaving))

\* Universe::fnd
fnd(u, v, a, psi, n) ==
    IF n = 0 THEN Ret(u, "Overflow", NoVertex)
    ELSE Try(dd(enter_it(u), v, psi, n - 1), LAMBDA r1 :
         Try(pf(r1.u, r1.v, a, psi, n - 1), Leaving))

\* a pf that keeps what the atom found as an edge of v
pf_caching_atom(u, v, a, psi, n) ==
    IF n = 0 THEN Ret(u, "Overflow", NoVertex)
    ELSE IF Kid(u.g, v, a) # NoVertex
        THEN Leaving(Ret(enter_it(u), "Ok", Kid(u.g, v, a)))
    ELSE IF Kid(u.g, v, "lambda") # NoVertex
        THEN Try(call_atom(enter_it(u), v, n - 1), LAMBDA to :
             Try(fnd(to.u, to.v, a, psi, n - 1), LAMBDA t :
             Try(GBind(t.u, v, t.v, a), LAMBDA b :
                 Leaving(Ret(b.u, "Ok", t.v)))))
    ELSE IF Kid(u.g, v, "phi") # NoVertex
        THEN Try(fnd(enter_it(u), Kid(u.g, v, "phi"), a, psi, n - 1), Leaving)
    ELSE IF Kid(u.g, v, "gamma") # NoVertex
        THEN Try(fnd(enter_it(u), Kid(u.g, v, "gamma"), a, psi, n - 1), LAMBDA t :
             Try(GBind(t.u, v, t.v, a), LAMBDA b :
                 Leaving(Ret(b.u, "Ok", t.v))))
    ELSE Ret(enter_it(u), "Err", NoVertex)

\* a pf that memoises the γ target itself, not what the lookup on it found
pf_memo_of_gamma(u, v, a, psi, n) ==
    IF n = 0 THEN Ret(u, "Overflow", NoVertex)
    ELSE IF Kid(u.g, v, a) # NoVertex
        THEN Leaving(Ret(enter_it(u), "Ok", Kid(u.g, v, a)))
    ELSE IF Kid(u.g, v, "lambda") # NoVertex
        THEN Try(call_atom(enter_it(u), v, n - 1), LAMBDA to :
             Try(fnd(to.u, to.v, a, psi, n - 1), Leaving))
    ELSE IF Kid(u.g, v, "phi") # NoVertex
        THEN Try(fnd(enter_it(u), Kid(u.g, v, "phi"), a, psi, n - 1), Leaving)
    ELSE IF Kid(u.g, v, "gamma") # NoVertex
        THEN Try(fnd(enter_it(u), Kid(u.g, v, "gamma"), a, psi, n - 1), LAMBDA t :
             Try(GBind(t.u, v, Kid(u.g, v, "gamma"), a), LAMBDA b :
                 Leaving(Ret(b.u, "Ok", t.v))))
    ELSE Ret(enter_it(u), "Err", NoVertex)

\* a pf that memoises what it finds through φ as it does through γ
pf_memo_of_phi(u, v, a, psi, n) ==
    IF n = 0 THEN Ret(u, "Overflow", NoVertex)
    ELSE IF Kid(u.g, v, a) # NoVertex
        THEN Leaving(Ret(enter_it(u), "Ok", Kid(u.g, v, a)))
    ELSE IF Kid(u.g, v, "lambda") # NoVertex
        THEN Try(call_atom(enter_it(u), v, n - 1), LAMBDA to :
             Try(fnd(to.u, to.v, a, psi, n - 1), Leaving))
    ELSE IF Kid(u.g, v, "phi") # NoVertex
        THEN Try(fnd(enter_it(u), Kid(u.g, v, "phi"), a, psi, n - 1), LAMBDA t :
             Try(GBind(t.u, v, t.v, a), LAMBDA b :
                 Leaving(Ret(b.u, "Ok", t.v))))
    ELSE IF Kid(u.g, v, "gamma") # NoVertex
        THEN Try(fnd(enter_it(u), Kid(u.g, v, "gamma"), a, psi, n - 1), LAMBDA t :
             Try(GBind(t.u, v, t.v, a), LAMBDA b :
                 Leaving(Ret(b.u, "Ok", t.v))))
    ELSE Ret(enter_it(u), "Err", NoVertex)

\* a pf that goes through γ as it goes through φ: it memoises nothing
pf_without_memo(u, v, a, psi, n) ==
    IF n = 0 THEN Ret(u, "Overflow", NoVertex)
    ELSE IF Kid(u.g, v, a) # NoVertex
        THEN Leaving(Ret(enter_it(u), "Ok", Kid(u.g, v, a)))
    ELSE IF Kid(u.g, v, "lambda") # NoVertex
        THEN Try(call_atom(enter_it(u), v, n - 1), LAMBDA to :
             Try(fnd(to.u, to.v, a, psi, n - 1), Leaving))
    ELSE IF Kid(u.g, v, "phi") # NoVertex
        THEN Try(fnd(enter_it(u), Kid(u.g, v, "phi"), a, psi, n - 1), Leaving)
    ELSE IF Kid(u.g, v, "gamma") # NoVertex
        THEN Try(fnd(enter_it(u), Kid(u.g, v, "gamma"), a, psi, n - 1), Leaving)
    ELSE Ret(enter_it(u), "Err", NoVertex)

\* a pf that asks the decoratee before the atom
pf_phi_before_lambda(u, v, a, psi, n) ==
    IF n = 0 THEN Ret(u, "Overflow", NoVertex)
    ELSE IF Kid(u.g, v, a) # NoVertex
        THEN Leaving(Ret(enter_it(u), "Ok", Kid(u.g, v, a)))
    ELSE IF Kid(u.g, v, "phi") # NoVertex
        THEN Try(fnd(enter_it(u), Kid(u.g, v, "phi"), a, psi, n - 1), Leaving)
    ELSE IF Kid(u.g, v, "lambda") # NoVertex
        THEN Try(call_atom(enter_it(u), v, n - 1), LAMBDA to :
             Try(fnd(to.u, to.v, a, psi, n - 1), Leaving))
    ELSE IF Kid(u.g, v, "gamma") # NoVertex
        THEN Try(fnd(enter_it(u), Kid(u.g, v, "gamma"), a, psi, n - 1), LAMBDA t :
             Try(GBind(t.u, v, t.v, a), LAMBDA b :
                 Leaving(Ret(b.u, "Ok", t.v))))
    ELSE Ret(enter_it(u), "Err", NoVertex)

\* Universe::pf
pf(u, v, a, psi, n) ==
    IF n = 0 THEN Ret(u, "Overflow", NoVertex)
    ELSE IF Kid(u.g, v, a) # NoVertex
        THEN Leaving(Ret(enter_it(u), "Ok", Kid(u.g, v, a)))
    ELSE IF Kid(u.g, v, "lambda") # NoVertex
        THEN Try(call_atom(enter_it(u), v, n - 1), LAMBDA to :
             Try(fnd(to.u, to.v, a, psi, n - 1), Leaving))
    ELSE IF Kid(u.g, v, "phi") # NoVertex
        THEN Try(fnd(enter_it(u), Kid(u.g, v, "phi"), a, psi, n - 1), Leaving)
    ELSE IF Kid(u.g, v, "gamma") # NoVertex
        THEN Try(fnd(enter_it(u), Kid(u.g, v, "gamma"), a, psi, n - 1), LAMBDA t :
             Try(GBind(t.u, v, t.v, a), LAMBDA b :
                 Leaving(Ret(b.u, "Ok", t.v))))
    ELSE Ret(enter_it(u), "Err", NoVertex)

\* a dd that copies a vertex with π before it looks at its ε, ξ and β
dd_pi_first(u, v, psi, n) ==
    IF n = 0 THEN Ret(u, "Overflow", NoVertex)
    ELSE IF Kid(u.g, v, "pi") # NoVertex
        THEN Try(dd(enter_it(u), Kid(u.g, v, "pi"), psi_of(u, v, psi), n - 1),
                 LAMBDA nv :
             Try(apply(nv.u, nv.v, v), Leaving))
    ELSE IF Kid(u.g, v, "eps") # NoVertex
        THEN Try(dd(enter_it(u), Kid(u.g, v, "eps"), psi_of(u, v, psi), n - 1),
                 Leaving)
    ELSE IF Kid(u.g, v, "xi") # NoVertex
        THEN Try(dd(enter_it(u), psi_of(u, v, psi), psi_of(u, v, psi), n - 1),
                 Leaving)
    ELSE IF Kid(u.g, v, "beta") # NoVertex
        THEN IF Kids(u.g, Kid(u.g, v, "beta")) = <<>>
             THEN Ret(enter_it(u), "Err", NoVertex)
             ELSE Try(fnd(enter_it(u), Kids(u.g, Kid(u.g, v, "beta"))[1][2],
                          Kids(u.g, Kid(u.g, v, "beta"))[1][1],
                          psi_of(u, v, psi), n - 1), LAMBDA nv :
                  Try(dd(nv.u, nv.v, psi_of(u, v, psi), n - 1), Leaving))
    ELSE Leaving(Ret(enter_it(u), "Ok", v))

\* Universe::dd
dd(u, v, psi, n) ==
    IF n = 0 THEN Ret(u, "Overflow", NoVertex)
    ELSE IF Kid(u.g, v, "eps") # NoVertex
        THEN Try(dd(enter_it(u), Kid(u.g, v, "eps"), psi_of(u, v, psi), n - 1),
                 Leaving)
    ELSE IF Kid(u.g, v, "xi") # NoVertex
        THEN Try(dd(enter_it(u), psi_of(u, v, psi), psi_of(u, v, psi), n - 1),
                 Leaving)
    ELSE IF Kid(u.g, v, "beta") # NoVertex
        THEN IF Kids(u.g, Kid(u.g, v, "beta")) = <<>>
             THEN Ret(enter_it(u), "Err", NoVertex)
             ELSE Try(fnd(enter_it(u), Kids(u.g, Kid(u.g, v, "beta"))[1][2],
                          Kids(u.g, Kid(u.g, v, "beta"))[1][1],
                          psi_of(u, v, psi), n - 1), LAMBDA nv :
                  Try(dd(nv.u, nv.v, psi_of(u, v, psi), n - 1), Leaving))
    ELSE IF Kid(u.g, v, "pi") # NoVertex
        THEN Try(dd(enter_it(u), Kid(u.g, v, "pi"), psi_of(u, v, psi), n - 1),
                 LAMBDA nv :
             Try(apply(nv.u, nv.v, v), Leaving))
    ELSE Leaving(Ret(enter_it(u), "Ok", v))

\* Universe::mut_re, the relay: the locator where the search goes on
mut_re(u, v, a, n) ==
    IF a = "Phi" THEN Ret(u, "Ok", <<Nu(0)>>)
    ELSE Try(fnd(u, v, a, 0, n), LAMBDA r : Ret(r.u, "Ok", <<Nu(r.v)>>))

\* Sodg::find with the Universe as the relay: walks the locator from v
sodg_find(u, v, loc, n) ==
    IF loc = <<>> THEN Ret(u, "Ok", v)
    ELSE IF Head(loc).t = "nu" THEN sodg_find(u, Head(loc).n, Tail(loc), n)
    ELSE IF Kid(u.g, v, Head(loc).a) # NoVertex
        THEN sodg_find(u, Kid(u.g, v, Head(loc).a), Tail(loc), n)
    ELSE IF n = 0 THEN Ret(u, "Overflow", NoVertex)
    ELSE Try(mut_re(u, v, Head(loc).a, n - 1), LAMBDA re :
         Try(sodg_find(re.u, v, re.v, n - 1), LAMBDA to :
             sodg_find(to.u, to.v, Tail(loc), n)))

\* Universe::find
find(u, loc, n) ==
    IF IsEmpty(u.g) THEN Ret(u, "Err", NoVertex)
    ELSE sodg_find(u, 0, loc, n)

\* a dataize that reads the vertex of the locator itself, not its Δ
dataize_without_delta(u, loc, n) ==
    Try(find(u, loc, n), LAMBDA v :
        IF SodgData(v.u.g, v.v).ok
        THEN Ret(v.u, "Ok", SodgData(v.u.g, v.v).bytes)
        ELSE Ret(v.u, "Err", <<>>))

\* a dataize that takes a vertex without data for empty data
dataize_empty_data(u, loc, n) ==
    Try(find(u, Append(loc, At("Delta")), n), LAMBDA v :
        Ret(v.u, "Ok", SodgData(v.u.g, v.v).bytes))

\* Universe::dataize: the value of an Ok result is the bytes
dataize(u, loc, n) ==
    Try(find(u, Append(loc, At("Delta")), n), LAMBDA v :
        IF SodgData(v.u.g, v.v).ok
        THEN Ret(v.u, "Ok", SodgData(v.u.g, v.v).bytes)
        ELSE Ret(v.u, "Err", <<>>))

(***************************************************************************)
(* The graphs a Universe is made from with from_graph, each as a script    *)
(* deploys it, and the inputs of the public calls.                         *)
(***************************************************************************)
Graph(k, d) ==
    [kids |-> k,
     data |-> [v \in DOMAIN k |-> IF v \in DOMAIN d THEN SomeData(d[v]) ELSE NoData]]

\* Φ.foo is an object with the data FF-FF
SeedHello ==
    Graph(0 :> << <<"foo", 1>> >> @@ 1 :> << <<"Delta", 2>> >> @@ 2 :> <<>>,
          2 :> <<255, 255>>)

\* Φ.a decorates an object with the attribute foo
SeedPhi ==
    Graph(0 :> << <<"a", 1>> >> @@ 1 :> << <<"phi", 2>> >>
          @@ 2 :> << <<"foo", 3>> >> @@ 3 :> << <<"Delta", 4>> >> @@ 4 :> <<>>,
          4 :> <<65>>)

\* the same with γ in place of φ
SeedGamma ==
    Graph(0 :> << <<"a", 1>> >> @@ 1 :> << <<"gamma", 2>> >>
          @@ 2 :> << <<"foo", 3>> >> @@ 3 :> << <<"Delta", 4>> >> @@ 4 :> <<>>,
          4 :> <<65>>)

\* Φ.a is its own ε
SeedLoop ==
    Graph(0 :> << <<"a", 1>> >> @@ 1 :> << <<"eps", 1>> >>, <<>>)

\* Φ.x is a copy of an object with data
SeedCopy ==
    Graph(0 :> << <<"x", 1>> >> @@ 1 :> << <<"pi", 2>> >>
          @@ 2 :> << <<"Delta", 3>> >> @@ 3 :> <<>>,
          3 :> I64ToBytes(2))

\* Φ.x is the atom inc with ρ = 41
SeedAtom ==
    Graph(0 :> << <<"x", 1>> >> @@ 1 :> << <<"lambda", 2>>, <<"rho", 3>> >>
          @@ 2 :> <<>> @@ 3 :> << <<"Delta", 4>> >> @@ 4 :> <<>>,
          2 :> FromStrBytes("inc") @@ 4 :> I64ToBytes(41))

\* Φ.x is a copy of the atom inc with ρ = 41
SeedCopyAtom ==
    Graph(0 :> << <<"x", 1>> >> @@ 1 :> << <<"pi", 2>> >>
          @@ 2 :> << <<"lambda", 3>>, <<"rho", 4>> >>
          @@ 3 :> <<>> @@ 4 :> << <<"Delta", 5>> >> @@ 5 :> <<>>,
          3 :> FromStrBytes("inc") @@ 5 :> I64ToBytes(41))

\* Φ.x has data and is a copy of the atom len
SeedCopyData ==
    Graph(0 :> << <<"x", 1>> >> @@ 1 :> << <<"pi", 2>>, <<"Delta", 3>> >>
          @@ 2 :> << <<"lambda", 4>> >> @@ 3 :> <<>> @@ 4 :> <<>>,
          3 :> <<65>> @@ 4 :> FromStrBytes("len"))

\* Φ.x is a copy that gives a value to the attribute a, void in its exemplar
SeedApply ==
    Graph(0 :> << <<"x", 1>> >> @@ 1 :> << <<"pi", 2>>, <<"a", 5>> >>
          @@ 2 :> << <<"a", 4>> >> @@ 4 :> << <<"rho", 2>> >>
          @@ 5 :> << <<"Delta", 6>> >> @@ 6 :> <<>>,
          6 :> <<65>>)

\* Φ.x is a copy of an object whose attribute foo is an object with data
SeedCopyFoo ==
    Graph(0 :> << <<"x", 1>> >> @@ 1 :> << <<"pi", 2>> >>
          @@ 2 :> << <<"foo", 3>> >> @@ 3 :> << <<"Delta", 4>> >> @@ 4 :> <<>>,
          4 :> <<65>>)

\* Φ.foo holds its data itself; the script skipped the id 1
SeedSparse ==
    Graph(0 :> << <<"foo", 2>> >> @@ 2 :> <<>>, 2 :> I64ToBytes(42))

Seeds == {SodgEmpty, SeedHello, SeedPhi, SeedGamma, SeedLoop, SeedCopy,
          SeedAtom, SeedCopyAtom, SeedCopyData, SeedApply, SeedCopyFoo,
          SeedSparse}

Locators == {<<At("Phi"), At("foo")>>, <<At("Phi"), At("a")>>,
             <<At("Phi"), At("a"), At("foo")>>, <<At("Phi"), At("x")>>,
             <<At("Phi"), At("x"), At("foo")>>,
             <<At("Q"), At("foo")>>, <<Nu(0), At("foo")>>,
             <<At("Phi"), At("foo"), At("xi")>>, <<Nu(42), At("foo")>>}

BindLabels == {"pi", "phi", "lambda", "Delta"}

BindFrom == {0, 1}

BindTo == {1, 2}

PutTo == {1, 2}

PutData == {<<255, 255>>}

(***************************************************************************)
(* The Universe of src/universe.rs as a state machine: one action per      *)
(* public call.                                                            *)
(***************************************************************************)
NoCall == [op |-> "new", st |-> "Ok", loc |-> <<>>, v |-> NoVertex,
           bytes |-> <<>>, peak |-> 0, d0 |-> 0]

NoRes == [op |-> "new", ok |-> TRUE, e |-> 0, v1 |-> 0, v2 |-> 0, a |-> "",
          st |-> "Ok", to |-> NoVertex, loc |-> <<>>, marks |-> <<>>]

\* no script is being deployed, nothing is saved, no command runs
NoGmi == [vars |-> [n \in {} |-> 0], failed |-> FALSE, used |-> {}, root |-> NoVertex,
          latest |-> 0]

NoFile == [some |-> FALSE]

NoCli == [pc |-> "idle", flag |-> FALSE, dumped |-> FALSE, image |-> <<>>,
          exit |-> "none", out |-> <<>>]

\* no slice has been asked for
NoCut == [st |-> "none", loc |-> <<>>, root |-> NoVertex, g |-> <<>>]

\* no find is in progress
NoWalk == [st |-> "none", s |-> <<>>, v |-> NoVertex, xi |-> NoVertex, xis |-> <<>>,
           locator |-> <<>>, jumps |-> 0, marks |-> <<>>, turns |-> 0]

ToolsIdle == gmi = NoGmi /\ file = NoFile /\ cli = NoCli /\ cut = NoCut /\ walk = NoWalk

\* the old store, empty and idle
StoreIdle ==
    /\ vertices = [v \in {} |-> 0]
    /\ edges = [e \in {} |-> 0]
    /\ registry = {}
    /\ res = NoRes

\* Universe::empty and Universe::from_graph
Init ==
    /\ \/ g = SodgEmpty /\ alerts = TRUE
       \/ g \in Seeds /\ alerts = FALSE
    /\ atoms = {}
    /\ depth = 0
    /\ hist = [init |-> Ids(g), alloc |-> <<>>, bound |-> EdgesOf(g), dup |-> FALSE,
               called |-> <<>>]
    /\ last = NoCall
    /\ calls = 0
    /\ alive = TRUE
    /\ StoreIdle
    /\ ToolsIdle

\* the Universe as the engine's procedures take it
Uni == [g |-> g, al |-> alerts, atoms |-> atoms, depth |-> depth,
        peak |-> depth, hist |-> hist]

CanCall == alive /\ calls < MaxCalls

\* what a public call leaves: the Universe of r and the record of the call
Leave(op, loc, r) ==
    /\ g' = r.u.g
    /\ depth' = r.u.depth
    /\ hist' = r.u.hist
    /\ last' = [op |-> op, st |-> r.st, loc |-> loc,
                v |-> IF r.st = "Ok" /\ op \in {"add", "find"} THEN r.v ELSE NoVertex,
                bytes |-> IF r.st = "Ok" /\ op = "dataize" THEN r.v ELSE <<>>,
                peak |-> r.u.peak, d0 |-> depth]
    /\ alive' = (r.st \in {"Ok", "Err"})

\* Universe::add
Add ==
    /\ alive
    /\ Cardinality(Ids(g)) < MaxAdd
    /\ Leave("add", <<>>, uni_add(Uni))
    /\ UNCHANGED <<alerts, atoms, calls, storeVars, toolVars>>

\* Universe::bind
Bind(v1, v2, a) ==
    /\ CanCall
    /\ Leave("bind", <<>>, uni_bind(Uni, v1, v2, a))
    /\ calls' = calls + 1
    /\ UNCHANGED <<alerts, atoms, storeVars, toolVars>>

\* Universe::put
Put(v, d) ==
    /\ CanCall
    /\ Leave("put", <<>>, uni_put(Uni, v, d))
    /\ calls' = calls + 1
    /\ UNCHANGED <<alerts, atoms, storeVars, toolVars>>

\* Universe::register
Register(name) ==
    /\ CanCall
    /\ atoms' = atoms \cup {name}
    /\ last' = [NoCall EXCEPT !.op = "register", !.peak = depth, !.d0 = depth]
    /\ calls' = calls + 1
    /\ UNCHANGED <<g, alerts, depth, hist, alive, storeVars, toolVars>>

\* Universe::find
Find(loc) ==
    /\ CanCall
    /\ Leave("find", loc, find(Uni, loc, MaxStack))
    /\ calls' = calls + 1
    /\ UNCHANGED <<alerts, atoms, storeVars, toolVars>>

\* Universe::dataize
Dataize(loc) ==
    /\ CanCall
    /\ Leave("dataize", loc, dataize(Uni, loc, MaxStack))
    /\ calls' = calls + 1
    /\ UNCHANGED <<alerts, atoms, storeVars, toolVars>>

Next ==
    \/ Add
    \/ \E v1 \in BindFrom, v2 \in BindTo, a \in BindLabels : Bind(v1, v2, a)
    \/ \E v \in PutTo, d \in PutData : Put(v, d)
    \/ \E name \in AtomNames : Register(name)
    \/ \E loc \in Locators : Find(loc)
    \/ \E loc \in Locators : Dataize(loc)

Spec == Init /\ [][Next]_vars

(***************************************************************************)
(* The graph store of src/universe/: vertices is a map from the id of a    *)
(* vertex to the Vertex [data, lambda, lambda_name, search], edges a map   *)
(* from the id of an edge to the Edge [from, to, a].  The operators take   *)
(* the store s = [vertices, edges] and return [ok, s].  The back-edge      *)
(* labels of this generation are "rho" and "sigma".                        *)
(***************************************************************************)
\* Vertex::empty
VertexEmpty == [data |-> NoData, lambda |-> "", lambda_name |-> "", search |-> ""]

\* Edge::new
EdgeNew(from, to, a) == [from |-> from, to |-> to, a |-> a]

Store == [vertices |-> vertices, edges |-> edges]

\* Universe::next_id: an id above every id in use
next_id(s) ==
    LET used == DOMAIN s.vertices \cup DOMAIN s.edges \cup {0}
    IN  (CHOOSE m \in used : \A i \in used : i <= m) + 1

\* Universe::edge: the target of the edge k of v, or None
edge(s, v, k) ==
    IF \E e \in DOMAIN s.edges : s.edges[e].from = v /\ s.edges[e].a = k
    THEN s.edges[CHOOSE e \in DOMAIN s.edges :
                     s.edges[e].from = v /\ s.edges[e].a = k].to
    ELSE NoVertex

\* HashMap::insert
Insert(f, k, x) == [i \in DOMAIN f \cup {k} |-> IF i = k THEN x ELSE f[i]]

\* an add that puts an empty vertex in the place of the one that exists
store_add_overwriting(s, v1) ==
    [ok |-> TRUE, s |-> [s EXCEPT !.vertices = Insert(@, v1, VertexEmpty)]]

\* Universe::add of i_add.rs
store_add(s, v1) ==
    IF v1 \in DOMAIN s.vertices THEN [ok |-> FALSE, s |-> s]
    ELSE [ok |-> TRUE, s |-> [s EXCEPT !.vertices = Insert(@, v1, VertexEmpty)]]

\* Universe::bind of i_bind.rs
RECURSIVE store_bind(_, _, _, _, _)
\* a bind that does not look whether v1 has an edge a already
store_bind_unchecked(s, e1, v1, v2, a) ==
    IF v1 \notin DOMAIN s.vertices THEN [ok |-> FALSE, s |-> s]
    ELSE IF v2 \notin DOMAIN s.vertices THEN [ok |-> FALSE, s |-> s]
    ELSE IF e1 \in DOMAIN s.edges THEN [ok |-> FALSE, s |-> s]
    ELSE LET s1 == [s EXCEPT !.edges = Insert(@, e1, EdgeNew(v1, v2, a))]
             r2 == IF edge(s1, v2, "rho") = NoVertex
                   THEN store_bind(s1, next_id(s1), v2, v1, "rho")
                   ELSE [ok |-> TRUE, s |-> s1]
             r3 == IF edge(r2.s, v2, "sigma") = NoVertex
                   THEN store_bind(r2.s, next_id(r2.s), v2, v1, "sigma")
                   ELSE [ok |-> TRUE, s |-> r2.s]
         IN  IF a = "rho" \/ a = "sigma" THEN [ok |-> TRUE, s |-> s1]
             ELSE IF ~r2.ok THEN r2
             ELSE r3

\* a bind that gives v2 its ρ but not its 𝜎
store_bind_without_sigma(s, e1, v1, v2, a) ==
    IF v1 \notin DOMAIN s.vertices THEN [ok |-> FALSE, s |-> s]
    ELSE IF v2 \notin DOMAIN s.vertices THEN [ok |-> FALSE, s |-> s]
    ELSE IF e1 \in DOMAIN s.edges THEN [ok |-> FALSE, s |-> s]
    ELSE IF edge(s, v1, a) # NoVertex THEN [ok |-> FALSE, s |-> s]
    ELSE LET s1 == [s EXCEPT !.edges = Insert(@, e1, EdgeNew(v1, v2, a))]
             r2 == IF edge(s1, v2, "rho") = NoVertex
                   THEN store_bind(s1, next_id(s1), v2, v1, "rho")
                   ELSE [ok |-> TRUE, s |-> s1]
         IN  IF a = "rho" \/ a = "sigma" THEN [ok |-> TRUE, s |-> s1]
             ELSE r2

\* a bind that hangs the back-edges on its source
store_bind_back_from_source(s, e1, v1, v2, a) ==
    IF v1 \notin DOMAIN s.vertices THEN [ok |-> FALSE, s |-> s]
    ELSE IF v2 \notin DOMAIN s.vertices THEN [ok |-> FALSE, s |-> s]
    ELSE IF e1 \in DOMAIN s.edges THEN [ok |-> FALSE, s |-> s]
    ELSE IF edge(s, v1, a) # NoVertex THEN [ok |-> FALSE, s |-> s]
    ELSE LET s1 == [s EXCEPT !.edges = Insert(@, e1, EdgeNew(v1, v2, a))]
             r2 == IF edge(s1, v1, "rho") = NoVertex
                   THEN store_bind(s1, next_id(s1), v1, v2, "rho")
                   ELSE [ok |-> TRUE, s |-> s1]
             r3 == IF edge(r2.s, v1, "sigma") = NoVertex
                   THEN store_bind(r2.s, next_id(r2.s), v1, v2, "sigma")
                   ELSE [ok |-> TRUE, s |-> r2.s]
         IN  IF a = "rho" \/ a = "sigma" THEN [ok |-> TRUE, s |-> s1]
             ELSE IF ~r2.ok THEN r2
             ELSE r3

store_bind(s, e1, v1, v2, a) ==
    IF v1 \notin DOMAIN s.vertices THEN [ok |-> FALSE, s |-> s]
    ELSE IF v2 \notin DOMAIN s.vertices THEN [ok |-> FALSE, s |-> s]
    ELSE IF e1 \in DOMAIN s.edges THEN [ok |-> FALSE, s |-> s]
    ELSE IF edge(s, v1, a) # NoVertex THEN [ok |-> FALSE, s |-> s]
    ELSE LET s1 == [s EXCEPT !.edges = Insert(@, e1, EdgeNew(v1, v2, a))]
             r2 == IF edge(s1, v2, "rho") = NoVertex
                   THEN store_bind(s1, next_id(s1), v2, v1, "rho")
                   ELSE [ok |-> TRUE, s |-> s1]
             r3 == IF edge(r2.s, v2, "sigma") = NoVertex
                   THEN store_bind(r2.s, next_id(r2.s), v2, v1, "sigma")
                   ELSE [ok |-> TRUE, s |-> r2.s]
         IN  IF a = "rho" \/ a = "sigma" THEN [ok |-> TRUE, s |-> s1]
             ELSE IF ~r2.ok THEN r2
             ELSE r3

\* Universe::data: puts the data into the vertex
store_data(s, v, d) ==
    IF v \notin DOMAIN s.vertices THEN [ok |-> FALSE, s |-> s]
    ELSE [ok |-> TRUE, s |-> [s EXCEPT !.vertices[v].data = SomeData(d)]]

\* m.starts_with("S/") and the locator that follows
IsSearch(m) == m \in {"S/Q", "S/Phi.b"}

SearchLoc(m) == IF m = "S/Q" THEN "Q" ELSE "Phi.b"

\* loc.split('.'): the steps of a locator, ▲ and ▼ written "load" and "save"
Split(loc) ==
    CASE loc = "Q" -> <<At("Q")>>
      [] loc = "Phi.b" -> <<At("Phi"), At("b")>>
      [] OTHER -> <<At(loc)>>

\* an atom that keeps the name and leaves the lookup of the function for later
store_atom_by_name(s, reg, v1, m) ==
    IF v1 \notin DOMAIN s.vertices THEN [ok |-> FALSE, s |-> s]
    ELSE [ok |-> TRUE,
          s |-> [s EXCEPT !.vertices[v1].lambda = m,
                          !.vertices[v1].lambda_name = m]]

\* Universe::atom of i_atom.rs
store_atom(s, reg, v1, m) ==
    IF v1 \notin DOMAIN s.vertices THEN [ok |-> FALSE, s |-> s]
    ELSE IF IsSearch(m)
    THEN [ok |-> TRUE,
          s |-> [s EXCEPT !.vertices[v1].lambda = "search",
                          !.vertices[v1].search = SearchLoc(m),
                          !.vertices[v1].lambda_name = m]]
    ELSE [ok |-> TRUE,
          s |-> [s EXCEPT !.vertices[v1].lambda =
                              IF m \in reg THEN m ELSE "not_implemented_yet",
                          !.vertices[v1].lambda_name = m]]

\* the atom dummy of the tests and the atom not_implemented_yet
call_lambda(s, name, xi) ==
    IF name = "dummy" THEN [ok |-> TRUE, v |-> 0] ELSE [ok |-> FALSE, v |-> NoVertex]

\* Universe::reconnect
reconnect(s, reg, v) ==
    IF v \notin DOMAIN s.vertices THEN [ok |-> FALSE, s |-> s]
    ELSE IF s.vertices[v].lambda = "" /\ s.vertices[v].lambda_name # ""
        THEN store_atom(s, reg, v, s.vertices[v].lambda_name)
    ELSE [ok |-> TRUE, s |-> s]

loaded_keeping_xi(xi, xis) ==
    xi

\* the ξ in force after ▲: xis.pop_back()
loaded(xi, xis) ==
    xis[Len(xis)]

\* what find returns: the status, the store, the vertex, and the ξ seen at
\* every ▼ and after every ▲
Found(st, s, v, marks) == [st |-> st, s |-> s, v |-> v, marks |-> marks]

\* the variables of the loop of Universe::find when it starts
Start(s, v1, loc) ==
    [st |-> "run", s |-> s, v |-> v1, xi |-> v1, xis |-> <<>>, locator |-> loc,
     jumps |-> 0, marks |-> <<>>, turns |-> 0]

counted_never(jumps) ==
    jumps

\* jumps += 1
counted(jumps) ==
    jumps + 1

\* one turn of the loop of Universe::find of universe/dataize.rs on the
\* variables w: either the loop ends (st is no longer "run") or it goes round
find_turn(reg, w) ==
    LET rc == reconnect(w.s, reg, w.v)
        s == rc.s
        k == Head(w.locator)
        rest == Tail(w.locator)
        End(st, v) == [w EXCEPT !.st = st, !.s = s, !.v = v]
        Go(v, xi, xis, locator, marks) ==
            [w EXCEPT !.s = s, !.v = v, !.xi = xi, !.xis = xis, !.locator = locator,
                      !.jumps = counted(w.jumps), !.marks = marks]
    IN  IF ~rc.ok THEN End("Err", NoVertex)
        ELSE IF w.locator = <<>> THEN End("Ok", w.v)
        ELSE IF counted(w.jumps) > JumpsLimit THEN End("Err", NoVertex)
        ELSE IF k = At("Delta") /\ s.vertices[w.v].data.some
            THEN End("Ok", w.v)
        ELSE IF k = At("load")
            THEN IF w.xis = <<>> THEN End("Panic", NoVertex)
                 ELSE Go(w.v, loaded(w.xi, w.xis), SubSeq(w.xis, 1, Len(w.xis) - 1), rest,
                         Append(w.marks, <<"load", loaded(w.xi, w.xis)>>))
        ELSE IF k = At("save")
            THEN Go(w.v, w.xi, Append(w.xis, w.xi), rest, Append(w.marks, <<"save", w.xi>>))
        ELSE IF k.t = "nu"
            THEN Go(k.n, k.n, w.xis, rest, w.marks)
        ELSE IF k = At("xi")
            THEN Go(w.v, w.xi, w.xis, rest, w.marks)
        ELSE IF k = At("Phi") \/ k = At("Q")
            THEN Go(0, 0, w.xis, rest, w.marks)
        ELSE IF edge(s, w.v, k.a) # NoVertex
            THEN Go(edge(s, w.v, k.a), edge(s, w.v, k.a), w.xis, rest, w.marks)
        ELSE IF edge(s, w.v, "pi") # NoVertex
            THEN Go(edge(s, w.v, "pi"), w.xi, w.xis, w.locator, w.marks)
        ELSE IF edge(s, w.v, "phi") # NoVertex
            THEN Go(edge(s, w.v, "phi"), edge(s, w.v, "phi"), w.xis, w.locator, w.marks)
        ELSE IF s.vertices[w.v].lambda # ""
            THEN IF IsSearch(s.vertices[w.v].lambda_name)
                 THEN Go(w.v, w.xi, w.xis,
                         <<At("save")>> \o Split(SearchLoc(s.vertices[w.v].lambda_name))
                             \o <<At("load")>> \o w.locator,
                         w.marks)
                 ELSE IF call_lambda(s, s.vertices[w.v].lambda, w.xi).ok
                      THEN Go(w.v, w.xi, w.xis,
                              <<Nu(call_lambda(s, s.vertices[w.v].lambda, w.xi).v)>> \o rest,
                              w.marks)
                      ELSE End("Err", NoVertex)
        ELSE End("Err", NoVertex)

\* the loop of Universe::find of universe/dataize.rs
RECURSIVE find_loop(_, _)
find_loop(reg, w) ==
    IF w.st = "run" THEN find_loop(reg, find_turn(reg, w))
    ELSE Found(w.st, w.s, w.v, w.marks)

\* Universe::find of universe/dataize.rs
store_find(s, reg, v1, loc) == find_loop(reg, Start(s, v1, loc))

\* Universe::dataize of universe/dataize.rs
store_dataize(s, reg, loc) ==
    IF DOMAIN s.vertices = {} THEN Found("Err", s, NoVertex, <<>>)
    ELSE LET f == store_find(s, reg, 0, loc)
         IN  IF f.st # "Ok" THEN f
             ELSE IF f.v \notin DOMAIN f.s.vertices THEN Found("Err", f.s, NoVertex, f.marks)
             ELSE IF ~f.s.vertices[f.v].data.some THEN Found("Err", f.s, NoVertex, f.marks)
             ELSE f

\* HashMap::remove
Remove(f, k) == [i \in DOMAIN f \ {k} |-> f[i]]

\* Universe::copy of i_copy.rs
store_copy(s, e1, v3, e2) ==
    IF e1 \notin DOMAIN s.edges THEN [ok |-> FALSE, s |-> s]
    ELSE IF s.edges[e1].to \notin DOMAIN s.vertices THEN [ok |-> FALSE, s |-> s]
    ELSE LET v1 == s.edges[e1].from
             v2 == s.edges[e1].to
             vtx2 == s.vertices[v2]
             put == Insert(Remove(s.edges, e1), e2, EdgeNew(v1, v3, s.edges[e1].a))
             moved == [e \in DOMAIN put |->
                          IF put[e].from = v2 THEN [put[e] EXCEPT !.from = v3]
                          ELSE put[e]]
             e3 == next_id([s EXCEPT !.edges = moved])
         IN  [ok |-> TRUE,
              s |-> [vertices |->
                         Insert(Insert(s.vertices, v2, [vtx2 EXCEPT !.data = NoData]),
                                v3, [vtx2 EXCEPT !.lambda = "", !.lambda_name = ""]),
                     edges |-> Insert(moved, e3, EdgeNew(v3, v2, "pi"))]]

\* Universe::lost_edges: the edges with an end that is no vertex
lost_edges(s) ==
    {e \in DOMAIN s.edges :
        s.edges[e].to \notin DOMAIN s.vertices \/ s.edges[e].from \notin DOMAIN s.vertices}

\* Universe::exclusive_trio: the vertices with λ and π or φ, or with more than
\* one π or φ edge
exclusive_trio(s) ==
    {v \in DOMAIN s.vertices :
        LET attrs == Cardinality({e \in DOMAIN s.edges :
                                     s.edges[e].from = v /\ s.edges[e].a \in {"pi", "phi"}})
        IN  (s.vertices[v].lambda # "" /\ attrs > 0) \/ attrs > 1}

\* Universe::inconsistencies: what the two report
inconsistencies(s) ==
    {<<"edge", e>> : e \in lost_edges(s)} \cup {<<"vertex", v>> : v \in exclusive_trio(s)}

(***************************************************************************)
(* Gmi of gmi.rs: a script is a sequence of instructions [op, args, a, d],  *)
(* an argument either a literal id ('ν1', 'ε2') or a name ('$x').  gm.vars *)
(* is Gmi.vars; gm.used keeps the names that stood where a vertex goes, and *)
(* gm.latest the last id the universe has given out to the script: ids are *)
(* allocated monotonically and never given out twice.                      *)
(***************************************************************************)
Lit(n) == [k |-> "lit", n |-> n, name |-> ""]

Var(name) == [k |-> "var", n |-> 0, name |-> name]

Ins(op, args, a, d) == [op |-> op, args |-> args, a |-> a, d |-> d]

\* Gmi::set_root
set_root(gm, v0) == [gm EXCEPT !.vars = Insert(@, "v0", v0)]

\* uni.next_id() as parse calls it: above every id in use and every id given out
allocated(gm, s) == IF next_id(s) > gm.latest THEN next_id(s) ELSE gm.latest + 1

\* Gmi::parse: the id an argument stands for, and Gmi.vars afterwards; the
\* argument of or_insert is evaluated whether the name is known or not
parse(gm, s, arg) ==
    IF arg.k = "var"
    THEN IF arg.name \in DOMAIN gm.vars
         THEN [gm |-> [gm EXCEPT !.latest = allocated(gm, s)], v |-> gm.vars[arg.name]]
         ELSE [gm |-> [gm EXCEPT !.vars = Insert(@, arg.name, allocated(gm, s)),
                                !.latest = allocated(gm, s)],
               v |-> allocated(gm, s)]
    ELSE [gm |-> gm, v |-> arg.n]

\* the names among the arguments at the places ps
NamesAt(ins, ps) == {ins.args[i].name : i \in {i \in ps : ins.args[i].k = "var"}}

\* the places of an instruction where a vertex goes
VertexPlaces(op) ==
    CASE op = "ADD" -> {1} [] op = "BIND" -> {2, 3} [] op = "COPY" -> {2}
      [] op = "DATA" -> {1} [] op = "ATOM" -> {1} [] OTHER -> {}

\* Gmi::deploy_one
deploy_one(gm, s, reg, ins) ==
    LET p1 == parse(gm, s, ins.args[1])
        p2 == parse(p1.gm, s, ins.args[2])
        p3 == parse(p2.gm, s, ins.args[3])
        seen(m) == [m EXCEPT !.used = @ \cup NamesAt(ins, VertexPlaces(ins.op))]
    IN  CASE ins.op = "ADD" ->
                [gm |-> seen(p1.gm)] @@ store_add(s, p1.v)
          [] ins.op = "BIND" ->
                [gm |-> seen(p3.gm)] @@ store_bind(s, p1.v, p2.v, p3.v, ins.a)
          [] ins.op = "COPY" ->
                [gm |-> seen(p3.gm)] @@ store_copy(s, p1.v, p2.v, p3.v)
          [] ins.op = "DATA" ->
                [gm |-> seen(p1.gm)] @@ store_data(s, p1.v, ins.d)
          [] ins.op = "ATOM" ->
                [gm |-> seen(p1.gm)] @@ store_atom(s, reg, p1.v, ins.a)
          [] OTHER -> [gm |-> gm, ok |-> FALSE, s |-> s]

\* Gmi::deploy_to: the lines in order, up to the first that fails
RECURSIVE deploy_from(_, _, _, _, _)
deploy_from(gm, s, reg, script, i) ==
    IF i > Len(script) THEN [gm |-> gm, ok |-> TRUE, s |-> s]
    ELSE LET r == deploy_one(gm, s, reg, script[i])
         IN  IF r.ok THEN deploy_from(r.gm, r.s, reg, script, i + 1) ELSE r

deploy_to(gm, s, reg, script) == deploy_from(gm, s, reg, script, 1)

(***************************************************************************)
(* The store as a state machine: one action per call.  res keeps the call  *)
(* and whether it returned Ok.                                             *)
(***************************************************************************)
StoreIds == {0, 1, 2}

StoreBindFrom == {0, 1}

StoreBindTo == {1, 2}

StoreLabels == {"x", "y", "rho"}

StoreData == {<<42>>}

StoreAtomAt == {1}

StoreAtomNames == {"dummy", "S/Q"}

\* the Universe of src/universe.rs, empty and idle
EngineIdle ==
    /\ g = SodgEmpty
    /\ alerts = FALSE
    /\ atoms = {}
    /\ depth = 0
    /\ hist = [init |-> {}, alloc |-> <<>>, bound |-> {}, dup |-> FALSE,
               called |-> <<>>]
    /\ last = NoCall
    /\ alive = TRUE

\* Universe::empty of the old store
InitStore ==
    /\ EngineIdle
    /\ calls = 0
    /\ StoreIdle
    /\ ToolsIdle

Became(r, op, e, v1, v2, a) ==
    /\ vertices' = r.s.vertices
    /\ edges' = r.s.edges
    /\ res' = [NoRes EXCEPT !.op = op, !.ok = r.ok, !.e = e, !.v1 = v1, !.v2 = v2,
                           !.a = a, !.st = IF r.ok THEN "Ok" ELSE "Err"]

\* add(v)
StoreAdd(v) ==
    /\ Became(store_add(Store, v), "add", 0, v, 0, "")
    /\ UNCHANGED <<registry, calls, engineVars, toolVars>>

\* bind(e1, v1, v2, a)
StoreBind(e1, v1, v2, a) ==
    /\ calls < MaxOps
    /\ Became(store_bind(Store, e1, v1, v2, a), "bind", e1, v1, v2, a)
    /\ calls' = calls + 1
    /\ UNCHANGED <<registry, engineVars, toolVars>>

\* data(v, d)
StoreDataPut(v, d) ==
    /\ Became(store_data(Store, v, d), "data", 0, v, 0, "")
    /\ UNCHANGED <<registry, calls, engineVars, toolVars>>

\* register(name, f)
StoreRegister(name) ==
    /\ registry' = registry \cup {name}
    /\ res' = [NoRes EXCEPT !.op = "register", !.a = name]
    /\ UNCHANGED <<vertices, edges, calls, engineVars, toolVars>>

\* atom(v, m)
StoreAtom(v, m) ==
    /\ Became(store_atom(Store, registry, v, m), "atom", 0, v, 0, m)
    /\ UNCHANGED <<registry, calls, engineVars, toolVars>>

NextStore ==
    \/ \E v \in StoreIds : StoreAdd(v)
    \/ \E e1 \in {next_id(Store), 1}, v1 \in StoreBindFrom, v2 \in StoreBindTo,
          a \in StoreLabels : StoreBind(e1, v1, v2, a)
    \/ \E v \in StoreAtomAt, d \in StoreData : StoreDataPut(v, d)
    \/ StoreRegister("dummy")
    \/ \E v \in StoreAtomAt, m \in StoreAtomNames : StoreAtom(v, m)

SpecStore == InitStore /\ [][NextStore]_vars

(***************************************************************************)
(* The store under evaluation: it starts as one of the universes the tests *)
(* build, and is searched, dataized, copied, saved and loaded.             *)
(***************************************************************************)
EmptyStore == [vertices |-> [v \in {} |-> 0], edges |-> [e \in {} |-> 0]]

AddLine(v) == Ins("ADD", <<Lit(v)>>, "", <<>>)

\* bind!: the edge takes the next id
BindLine(v1, v2, a) == Ins("BIND", <<Var(a), Lit(v1), Lit(v2)>>, a, <<>>)

\* search_atom_works of universe/dataize.rs
ScriptSearch ==
    <<AddLine(0), AddLine(1), BindLine(0, 1, "a"), AddLine(2), BindLine(0, 2, "b"),
      AddLine(3), BindLine(2, 3, "c"), Ins("ATOM", <<Lit(1)>>, "S/Phi.b", <<>>)>>

\* saves_and_loads of universe/serialization.rs
ScriptRoot ==
    <<AddLine(0), Ins("DATA", <<Lit(0)>>, "", I64ToBytes(0)), AddLine(1),
      BindLine(0, 1, "foo"), Ins("ATOM", <<Lit(1)>>, "S/Q", <<>>)>>

\* makes_simple_copy of universe/i_copy.rs, the atom being dummy
ScriptCopy ==
    <<AddLine(0), AddLine(1), Ins("DATA", <<Lit(1)>>, "", I64ToBytes(42)),
      BindLine(0, 1, "x"), Ins("ATOM", <<Lit(1)>>, "dummy", <<>>),
      AddLine(2), BindLine(1, 2, "y")>>

\* an object x decorating the object that has y
ScriptPhi ==
    <<AddLine(0), AddLine(1), BindLine(0, 1, "x"), AddLine(2), BindLine(1, 2, "phi"),
      AddLine(3), BindLine(2, 3, "y")>>

\* evaluates_dummy_atom of universe/i_atom.rs, the atom being the x of the root
ScriptDummy ==
    <<AddLine(0), Ins("DATA", <<Lit(0)>>, "", I64ToBytes(0)), AddLine(1),
      Ins("ATOM", <<Lit(1)>>, "dummy", <<>>), BindLine(0, 1, "x")>>

OldScripts == {ScriptSearch, ScriptRoot, ScriptCopy, ScriptPhi, ScriptDummy}

OldIds == {0, 1}

OldLocators ==
    {<<At("Phi"), At("a"), At("c")>>, <<At("Phi"), At("b"), At("c")>>,
     <<At("Delta")>>, <<At("Q"), At("foo"), At("Delta")>>,
     <<At("x"), At("pi")>>, <<At("x"), At("y")>>, <<At("x"), At("Delta")>>,
     <<At("c")>>}

\* org::eolang::register
StdAtoms == {"org.eolang.int$plus", "org.eolang.int$times", "org.eolang.int$div",
             "org.eolang.array$length", "org.eolang.array$at"}

\* Universe::empty, register("dummy", dummy) and the calls of one of the tests
InitOld ==
    /\ EngineIdle
    /\ calls = 0
    /\ ToolsIdle
    /\ res = NoRes
    /\ registry = {"dummy"}
    /\ \E script \in OldScripts :
           LET r == deploy_to(NoGmi, EmptyStore, {"dummy"}, script)
           IN  r.ok /\ vertices = r.s.vertices /\ edges = r.s.edges

Searched(r, op, v1, loc) ==
    /\ vertices' = r.s.vertices
    /\ edges' = r.s.edges
    /\ res' = [NoRes EXCEPT !.op = op, !.ok = (r.st = "Ok"), !.v1 = v1, !.st = r.st,
                           !.to = r.v, !.loc = loc, !.marks = r.marks]

\* find(v1, loc)
OldFind(v1, loc) ==
    /\ Searched(store_find(Store, registry, v1, loc), "find", v1, loc)
    /\ UNCHANGED <<registry, calls, engineVars, toolVars>>

\* dataize(loc)
OldDataize(loc) ==
    /\ Searched(store_dataize(Store, registry, loc), "dataize", 0, loc)
    /\ UNCHANGED <<registry, calls, engineVars, toolVars>>

\* the edges that are copied: those that are not back-edges
CopyEdges(s) == {e \in DOMAIN s.edges : s.edges[e].a \notin {"rho", "sigma"}}

\* copy!(uni, e1)
OldCopy(e1) ==
    /\ calls < MaxOps
    /\ Became(store_copy(Store, e1, next_id(Store), next_id(Store)),
              "copy", e1, next_id(Store), 0, "")
    /\ calls' = calls + 1
    /\ UNCHANGED <<registry, engineVars, toolVars>>

\* what save writes: the function pointers are not written
save(s, reg) ==
    [some |-> TRUE,
     vertices |-> [v \in DOMAIN s.vertices |-> [s.vertices[v] EXCEPT !.lambda = ""]],
     edges |-> s.edges,
     of |-> [s |-> s, reg |-> reg]]

\* the atoms re-attached by load, vertex after vertex
RECURSIVE reattach(_, _, _)
reattach(s, reg, vs) ==
    IF vs = {} THEN s
    ELSE LET v == CHOOSE x \in vs : TRUE
         IN  reattach(store_atom(s, reg, v, s.vertices[v].lambda_name).s, reg, vs \ {v})

load_without_atoms(f) ==
    [vertices |-> f.vertices, edges |-> f.edges]

\* Universe::load
load(f) ==
    LET s == [vertices |-> f.vertices, edges |-> f.edges]
    IN  reattach(s, StdAtoms,
                 {v \in DOMAIN s.vertices : s.vertices[v].lambda_name # ""})

\* save(path)
OldSave ==
    /\ calls < MaxOps
    /\ file' = save(Store, registry)
    /\ res' = [NoRes EXCEPT !.op = "save"]
    /\ calls' = calls + 1
    /\ UNCHANGED <<vertices, edges, registry, engineVars, gmi, cli, cut, walk>>

\* Universe::load(path): the loaded universe is the one used from now on
OldLoad ==
    /\ file.some
    /\ vertices' = load(file).vertices
    /\ edges' = load(file).edges
    /\ registry' = StdAtoms
    /\ res' = [NoRes EXCEPT !.op = "load"]
    /\ UNCHANGED <<calls, engineVars, toolVars>>

NextOld ==
    \/ \E v1 \in OldIds, loc \in OldLocators : OldFind(v1, loc)
    \/ \E loc \in OldLocators : OldDataize(loc)
    \/ \E e1 \in CopyEdges(Store) \cup {0} : OldCopy(e1)
    \/ OldSave
    \/ OldLoad

SpecOld == InitOld /\ [][NextOld]_vars

(***************************************************************************)
(* Atoms of the old store: registered, attached to a vertex, met by find,  *)
(* saved and loaded.                                                       *)
(***************************************************************************)
\* the root has data and an attribute x, which has no atom yet
ScriptBare ==
    <<AddLine(0), Ins("DATA", <<Lit(0)>>, "", I64ToBytes(0)), AddLine(1),
      BindLine(0, 1, "x")>>

LambdaNames == {"dummy", "org.eolang.int$plus"}

LambdaLocators == {<<At("x"), At("y")>>, <<At("x")>>}

InitLambda ==
    /\ EngineIdle
    /\ calls = 0
    /\ ToolsIdle
    /\ res = NoRes
    /\ registry = {}
    /\ LET r == deploy_to(NoGmi, EmptyStore, {}, ScriptBare)
       IN  r.ok /\ vertices = r.s.vertices /\ edges = r.s.edges

NextLambda ==
    \/ StoreRegister("dummy")
    \/ \E m \in LambdaNames : StoreAtom(1, m)
    \/ \E loc \in LambdaLocators : OldFind(0, loc)
    \/ OldSave
    \/ OldLoad

SpecLambda == InitLambda /\ [][NextLambda]_vars

(***************************************************************************)
(* The loop of the old find, turn by turn, on graphs with cycles.          *)
(***************************************************************************)
\* Φ.x is a copy of a copy of itself
ScriptPiCycle ==
    <<AddLine(0), AddLine(1), AddLine(2), BindLine(0, 1, "x"), BindLine(1, 2, "pi"),
      Ins("BIND", <<Var("back"), Lit(2), Lit(1)>>, "pi", <<>>)>>

\* Φ.x decorates its own decorator
ScriptPhiCycle ==
    <<AddLine(0), AddLine(1), AddLine(2), BindLine(0, 1, "x"), BindLine(1, 2, "phi"),
      Ins("BIND", <<Var("back"), Lit(2), Lit(1)>>, "phi", <<>>)>>

\* the root is a search atom that searches from the root
ScriptSearchSelf ==
    <<AddLine(0), AddLine(1), BindLine(0, 1, "x"), Ins("ATOM", <<Lit(0)>>, "S/Q", <<>>),
      Ins("ATOM", <<Lit(1)>>, "S/Phi.b", <<>>)>>

JumpScripts == {ScriptPiCycle, ScriptPhiCycle, ScriptSearchSelf, ScriptSearch, ScriptPhi}

JumpIds == {0, 1}

JumpLocators ==
    {<<At("x"), At("foo")>>, <<At("foo")>>, <<At("Phi"), At("x"), At("y"), At("Delta")>>,
     <<At("a"), At("c")>>, <<At("xi"), At("x"), At("load")>>, <<Nu(1), At("b"), At("c")>>}

InitJumps ==
    /\ EngineIdle
    /\ calls = 0
    /\ ToolsIdle
    /\ res = NoRes
    /\ registry = {}
    /\ \E script \in JumpScripts :
           LET r == deploy_to(NoGmi, EmptyStore, {}, script)
           IN  r.ok /\ vertices = r.s.vertices /\ edges = r.s.edges

\* find(v1, loc) is called: the variables of its loop are set
FindCalled(v1, loc) ==
    /\ walk.st = "none"
    /\ walk' = Start(Store, v1, loc)
    /\ res' = [NoRes EXCEPT !.op = "find", !.v1 = v1, !.loc = loc]
    /\ UNCHANGED <<vertices, edges, registry, calls, engineVars, gmi, file, cli, cut>>

\* one turn of the loop
Turn ==
    /\ walk.st = "run"
    /\ walk' = [find_turn(registry, walk) EXCEPT !.turns = @ + 1]
    /\ vertices' = walk'.s.vertices
    /\ edges' = walk'.s.edges
    /\ UNCHANGED <<registry, res, calls, engineVars, gmi, file, cli, cut>>

NextJumps ==
    \/ \E v1 \in JumpIds, loc \in JumpLocators : FindCalled(v1, loc)
    \/ Turn

\* a find that was called runs, and a loop that can go round does
SpecJumps == InitJumps /\ [][NextJumps]_vars /\ WF_vars(NextJumps)

(***************************************************************************)
(* The atoms of org::eolang on the engine: the graph of an addition, with  *)
(* the atom registered and the sum dataized.                               *)
(***************************************************************************)
PlusInts == {-3, 0, 2, 300}

\* Φ.r is int$plus with ρ = Φ.x and α0 = Φ.y, two objects with data
SeedPlus(x, y) ==
    Graph(0 :> << <<"x", 1>>, <<"y", 2>>, <<"r", 3>> >>
          @@ 1 :> << <<"Delta", 4>> >> @@ 2 :> << <<"Delta", 5>> >>
          @@ 3 :> << <<"lambda", 6>>, <<"rho", 1>>, <<"alpha0", 2>> >>
          @@ 4 :> <<>> @@ 5 :> <<>> @@ 6 :> <<>>,
          4 :> I64ToBytes(x) @@ 5 :> I64ToBytes(y)
          @@ 6 :> FromStrBytes("org.eolang.int$plus"))

\* the same with ρ a copy of Φ.x
SeedPlusOfCopy(x, y) ==
    Graph(0 :> << <<"x", 1>>, <<"y", 2>>, <<"r", 3>> >>
          @@ 1 :> << <<"Delta", 4>> >> @@ 2 :> << <<"Delta", 5>> >>
          @@ 3 :> << <<"lambda", 6>>, <<"rho", 7>>, <<"alpha0", 2>> >>
          @@ 4 :> <<>> @@ 5 :> <<>> @@ 6 :> <<>> @@ 7 :> << <<"pi", 1>> >>,
          4 :> I64ToBytes(x) @@ 5 :> I64ToBytes(y)
          @@ 6 :> FromStrBytes("org.eolang.int$plus"))

PlusLocators == {<<At("Phi"), At("r")>>, <<At("Phi"), At("x")>>, <<Nu(3), At("rho")>>}

InitAtoms ==
    /\ \E x, y \in PlusInts : g \in {SeedPlus(x, y), SeedPlusOfCopy(x, y)}
    /\ alerts = FALSE
    /\ atoms = {}
    /\ depth = 0
    /\ hist = [init |-> Ids(g), alloc |-> <<>>, bound |-> EdgesOf(g), dup |-> FALSE,
               called |-> <<>>]
    /\ last = NoCall
    /\ calls = 0
    /\ alive = TRUE
    /\ StoreIdle
    /\ ToolsIdle

NextAtoms ==
    \/ \E name \in EoAtomNames : Register(name)
    \/ \E loc \in PlusLocators : Dataize(loc)

SpecAtoms == InitAtoms /\ [][NextAtoms]_vars

(***************************************************************************)
(* Universe::slice.  Sodg::slice_some resolves the locator, then goes from *)
(* the vertex found along the edges the predicate keeps, and returns the   *)
(* vertices it has been to, with their data and the edges kept.            *)
(***************************************************************************)
keeps_rho(a) ==
    a # "sigma"

\* the predicate of Universe::slice: !a.starts_with('ρ') && !a.starts_with('σ')
keeps(a) ==
    a # "rho" /\ a # "sigma"

KeptEdge(e) == keeps(e[1])

\* Sodg::find without a relay: every part of the locator is an id or an edge
RECURSIVE plain_find(_, _, _)
plain_find(gr, v, loc) ==
    IF loc = <<>> THEN v
    ELSE IF Head(loc).t = "nu"
        THEN IF Head(loc).n \in Ids(gr) THEN plain_find(gr, Head(loc).n, Tail(loc))
             ELSE NoVertex
    ELSE IF Kid(gr, v, Head(loc).a) # NoVertex
        THEN plain_find(gr, Kid(gr, v, Head(loc).a), Tail(loc))
    ELSE NoVertex

\* the targets of the kept edges of v
KeptKids(gr, v) ==
    {Kids(gr, v)[i][2] : i \in {j \in DOMAIN Kids(gr, v) : KeptEdge(Kids(gr, v)[j])}}

\* the vertices slice_some goes through: todo are seen and not visited yet
RECURSIVE visit(_, _, _)
visit(gr, todo, done) ==
    IF todo = {} THEN done
    ELSE LET v == CHOOSE x \in todo : TRUE
         IN  visit(gr, (todo \cup KeptKids(gr, v)) \ (done \cup {v}), done \cup {v})

\* Sodg::slice_some with the predicate of Universe::slice
slice_some(gr, loc) ==
    LET root == plain_find(gr, 0, loc)
        seen == visit(gr, {root}, {})
    IN  IF IsEmpty(gr) \/ root = NoVertex
        THEN [st |-> "Err", loc |-> loc, root |-> NoVertex, g |-> <<>>]
        ELSE [st |-> "Ok", loc |-> loc, root |-> root,
              g |-> [kids |-> [v \in seen |-> SelectSeq(Kids(gr, v), KeptEdge)],
                     data |-> [v \in seen |-> gr.data[v]]]]

SliceLocators ==
    {<<Nu(0)>>, <<Nu(0), At("x")>>, <<Nu(0), At("foo")>>, <<Nu(0), At("a")>>,
     <<Nu(0), At("x"), At("rho")>>, <<Nu(7)>>}

SliceLabels == {"rho", "sigma", "x"}

\* Universe::slice
Slice(loc) ==
    /\ alive
    /\ cut' = slice_some(g, loc)
    /\ last' = [NoCall EXCEPT !.op = "slice", !.loc = loc, !.peak = depth, !.d0 = depth,
                               !.st = slice_some(g, loc).st]
    /\ UNCHANGED <<g, alerts, atoms, depth, hist, calls, alive, storeVars, gmi, file, cli,
                   walk>>

NextSlice ==
    \/ \E loc \in SliceLocators : Slice(loc)
    \/ \E v1 \in BindFrom, v2 \in BindTo, a \in SliceLabels : Bind(v1, v2, a)

SpecSlice == Init /\ [][NextSlice]_vars

(***************************************************************************)
(* The dataize command of bin/reo.rs, step by step: the graph is loaded    *)
(* and the object dataized, the graph is dumped when --dump is given, the  *)
(* outcome is reported.  A panic or an exhausted stack ends the process    *)
(* where it happens.                                                       *)
(***************************************************************************)
CliObjects == {"foo", "x", "a", "r"}

\* Sodg::load, Universe::from_graph, register and uni.dataize("Φ.{object}")
CliDataize(object, flag) ==
    /\ cli.pc = "idle"
    /\ atoms' = EoAtomNames
    /\ Leave("dataize", <<At("Phi"), At(object)>>,
             dataize([Uni EXCEPT !.atoms = EoAtomNames], <<At("Phi"), At(object)>>,
                     MaxStack))
    /\ cli' = IF last'.st \in {"Ok", "Err"}
              THEN [cli EXCEPT !.pc = "attempted", !.flag = flag]
              ELSE [cli EXCEPT !.pc = "done", !.flag = flag, !.exit = "failure"]
    /\ UNCHANGED <<alerts, calls, storeVars, gmi, file, cut, walk>>

\* if subs.is_present("dump") { uni.dump(dump)? }
CliDump ==
    /\ cli.pc = "attempted"
    /\ cli' = [cli EXCEPT !.pc = "dumped", !.dumped = cli.flag,
                          !.image = IF cli.flag THEN g ELSE <<>>]
    /\ UNCHANGED <<engineVars, calls, storeVars, gmi, file, cut, walk>>

\* r?.print() and println!
CliReport ==
    /\ cli.pc = "dumped"
    /\ cli' = [cli EXCEPT !.pc = "done",
                          !.exit = IF last.st = "Ok" THEN "success" ELSE "failure",
                          !.out = last.bytes]
    /\ UNCHANGED <<engineVars, calls, storeVars, gmi, file, cut, walk>>

\* the file holds one of the graphs
InitCli ==
    /\ g \in Seeds \cup {SeedPlus(2, 2)}
    /\ alerts = FALSE
    /\ atoms = {}
    /\ depth = 0
    /\ hist = [init |-> Ids(g), alloc |-> <<>>, bound |-> EdgesOf(g), dup |-> FALSE,
               called |-> <<>>]
    /\ last = NoCall
    /\ calls = 0
    /\ alive = TRUE
    /\ StoreIdle
    /\ ToolsIdle

NextCli ==
    \/ \E object \in CliObjects, flag \in BOOLEAN : CliDataize(object, flag)
    \/ CliDump
    \/ CliReport

SpecCli == InitCli /\ [][NextCli]_vars

(***************************************************************************)
(* Scripts: setup of scripts.rs has made the universe with the vertex of   *)
(* the package abc, sets the root of the script and deploys it.            *)
(***************************************************************************)
\* setup up to set_root, for a script in the directory abc
ScriptSetup == <<AddLine(0), AddLine(1), BindLine(0, 1, "abc")>>

\* the lines of dataizes_simple_gmi, and lines that name the root, copy and
\* bind the copy
GmiLines ==
    {Ins("ADD", <<Var("a")>>, "", <<>>),
     Ins("BIND", <<Var("e"), Lit(0), Var("a")>>, "foo", <<>>),
     Ins("DATA", <<Var("a")>>, "", <<255, 255>>),
     Ins("BIND", <<Var("e"), Var("v0"), Var("a")>>, "foo", <<>>),
     Ins("COPY", <<Lit(2), Var("c"), Var("f")>>, "", <<>>),
     Ins("BIND", <<Var("g"), Var("c"), Var("f")>>, "z", <<>>),
     Ins("ADD", <<Var("b")>>, "", <<>>)}

GmiScripts == UNION {[1..n -> GmiLines] : n \in 1..MaxLines}

GmiRoots == {0, 1}

\* Universe::empty, the vertices of setup and Gmi::from_file
InitGmi ==
    /\ EngineIdle
    /\ calls = 0
    /\ ToolsIdle
    /\ res = NoRes
    /\ registry = {}
    /\ vertices = deploy_to(NoGmi, EmptyStore, {}, ScriptSetup).s.vertices
    /\ edges = deploy_to(NoGmi, EmptyStore, {}, ScriptSetup).s.edges

\* gmi.set_root(root)
SetRoot(r) ==
    /\ res.op = "new"
    /\ gmi' = [set_root(gmi, r) EXCEPT !.root = r]
    /\ res' = [NoRes EXCEPT !.op = "set_root", !.v1 = r]
    /\ UNCHANGED <<vertices, edges, registry, calls, engineVars, file, cli, cut, walk>>

\* gmi.deploy_to(&mut uni)
DeployTo(script) ==
    /\ res.op \in {"new", "set_root"}
    /\ LET r == deploy_to(gmi, Store, registry, script)
       IN  /\ gmi' = [r.gm EXCEPT !.failed = ~r.ok]
           /\ vertices' = r.s.vertices
           /\ edges' = r.s.edges
           /\ res' = [NoRes EXCEPT !.op = "deploy", !.ok = r.ok, !.loc = script,
                                  !.st = IF r.ok THEN "Ok" ELSE "Err"]
    /\ UNCHANGED <<registry, calls, engineVars, file, cli, cut, walk>>

NextGmi ==
    \/ \E r \in GmiRoots : SetRoot(r)
    \/ \E script \in GmiScripts : DeployTo(script)

SpecGmi == InitGmi /\ [][NextGmi]_vars

(***************************************************************************)
(* Dispatch.  Universes whose root has an attribute x that the search      *)
(* cannot walk by its edges alone, so that the relay runs fnd, dd, apply   *)
(* and pf on it.                                                           *)
(***************************************************************************)
\* ν0 -x-> ν1, ν1 is a copy (π) of ν2; cp are the other edges of the copy, ex
\* the edges of the exemplar.  ν3 and ν4 are nils of ν2 (one edge, ρ), ν5 and
\* ν7 objects with data
CopyOf(ex, cp) ==
    Graph(0 :> << <<"x", 1>> >> @@ 1 :> (<< <<"pi", 2>> >> \o cp) @@ 2 :> ex
          @@ 3 :> << <<"rho", 2>> >> @@ 4 :> << <<"rho", 2>> >>
          @@ 5 :> << <<"Delta", 6>> >> @@ 6 :> <<>>
          @@ 7 :> << <<"Delta", 8>> >> @@ 8 :> <<>>,
          6 :> <<65>> @@ 8 :> <<66>>)

\* the edges of an exemplar: void attributes, attached ones, data, ρ
Exemplars ==
    {<<>>, << <<"foo", 3>> >>, << <<"foo", 3>>, <<"b", 4>> >>,
     << <<"foo", 5>> >>, << <<"Delta", 6>> >>, << <<"rho", 0>>, <<"foo", 3>> >>,
     << <<"foo", 5>>, <<"b", 4>> >>}

\* the edges of a copy next to its π
Copies ==
    {<<>>, << <<"foo", 7>> >>, << <<"Delta", 8>> >>, << <<"alpha0", 7>> >>,
     << <<"alpha1", 7>> >>, << <<"alpha0", 7>>, <<"alpha1", 5>> >>,
     << <<"rho", 0>> >>, << <<"b", 7>> >>}

\* Φ.x has ε and π; the ε chain ends in an atom that has foo itself and
\* decorates an object with b
SeedEps ==
    Graph(0 :> << <<"x", 1>> >> @@ 1 :> << <<"eps", 2>>, <<"pi", 4>> >>
          @@ 2 :> << <<"eps", 3>> >>
          @@ 3 :> << <<"foo", 4>>, <<"lambda", 5>>, <<"rho", 6>>, <<"phi", 8>> >>
          @@ 4 :> <<>> @@ 5 :> <<>> @@ 6 :> << <<"Delta", 7>> >> @@ 7 :> <<>>
          @@ 8 :> << <<"b", 4>> >>,
          5 :> FromStrBytes("inc") @@ 7 :> I64ToBytes(41))

\* Φ.x has φ and γ, and both targets have foo
SeedPhiGamma ==
    Graph(0 :> << <<"x", 1>> >> @@ 1 :> << <<"phi", 2>>, <<"gamma", 3>> >>
          @@ 2 :> << <<"foo", 4>> >> @@ 3 :> << <<"foo", 5>>, <<"b", 5>> >>
          @@ 4 :> <<>> @@ 5 :> <<>>, <<>>)

\* Φ.x is ξ with a ψ of its own
SeedXi ==
    Graph(0 :> << <<"x", 1>>, <<"foo", 4>> >> @@ 1 :> << <<"xi", 0>>, <<"psi", 2>> >>
          @@ 2 :> << <<"foo", 3>> >> @@ 3 :> <<>> @@ 4 :> <<>>, <<>>)

\* Φ.x is ξ and has no ψ
SeedXiRoot ==
    Graph(0 :> << <<"x", 1>>, <<"foo", 4>> >> @@ 1 :> << <<"xi", 0>> >>
          @@ 2 :> << <<"foo", 3>> >> @@ 3 :> <<>> @@ 4 :> <<>>, <<>>)

\* Φ.x has a ψ and an ε to a decorator of a ξ
SeedPsiLocal ==
    Graph(0 :> << <<"x", 1>>, <<"foo", 5>> >> @@ 1 :> << <<"psi", 2>>, <<"eps", 3>> >>
          @@ 2 :> << <<"foo", 6>> >> @@ 3 :> << <<"phi", 4>> >>
          @@ 4 :> << <<"xi", 0>> >> @@ 5 :> <<>> @@ 6 :> <<>>, <<>>)

\* Φ.x has β and π
SeedBeta ==
    Graph(0 :> << <<"x", 1>> >> @@ 1 :> << <<"beta", 2>>, <<"pi", 5>> >>
          @@ 2 :> << <<"foo", 3>> >> @@ 3 :> << <<"foo", 4>> >>
          @@ 4 :> << <<"foo", 5>> >> @@ 5 :> <<>>, <<>>)

DispatchSeeds ==
    {CopyOf(ex, cp) : ex \in Exemplars, cp \in Copies}
        \cup {SeedEps, SeedPhiGamma, SeedXi, SeedXiRoot, SeedPsiLocal, SeedBeta}

DispatchLocators == {<<At("Phi"), At("x"), At("foo")>>, <<At("Phi"), At("x"), At("b")>>}

\* Universe::from_graph and the atoms of the tests registered
InitDispatch ==
    /\ g \in DispatchSeeds
    /\ alerts = FALSE
    /\ atoms = AtomNames
    /\ depth = 0
    /\ hist = [init |-> Ids(g), alloc |-> <<>>, bound |-> EdgesOf(g), dup |-> FALSE,
               called |-> <<>>]
    /\ last = NoCall
    /\ calls = 0
    /\ alive = TRUE
    /\ StoreIdle
    /\ ToolsIdle

NextDispatch ==
    \/ \E loc \in DispatchLocators : Find(loc)
    \/ \E loc \in DispatchLocators : Dataize(loc)

SpecDispatch == InitDispatch /\ [][NextDispatch]_vars

(***************************************************************************)
(* Properties.                                                             *)
(***************************************************************************)
Evals == {"find", "dataize"}

StoreNow == [vertices |-> vertices', edges |-> edges']

\* the edges of the old store, each as <<source, label, target>>
Arcs(s) == {<<s.edges[e].from, s.edges[e].a, s.edges[e].to>> : e \in DOMAIN s.edges}

\* C1: whenever dataize(loc) is called on a Universe where loc resolves to a
\* vertex v with an edge Δ to a vertex that holds the datum d, the call
\* returns Ok with exactly the bytes of d.
C1_DataizeReturnsDatum ==
    [][last'.op = "dataize" =>
          LET r == find(Uni, last'.loc, MaxStack)
              k == Kid(r.u.g, r.v, "Delta")
          IN  (r.st = "Ok" /\ k # NoVertex /\ SodgData(r.u.g, k).ok)
                  => (last'.st = "Ok" /\ last'.bytes = SodgData(r.u.g, k).bytes)]_vars

\* a dataize of Φ.foo has returned FF-FF, the datum behind the Δ of Φ.foo
C1_Witness ==
    /\ last.op = "dataize" /\ last.st = "Ok"
    /\ last.loc = <<At("Phi"), At("foo")>>
    /\ last.bytes = <<255, 255>>
    /\ Kid(g, Kid(g, 0, "foo"), "Delta") # NoVertex

\* C2: find and dataize always return (they never exhaust the stack), and
\* the depth of the engine never goes above the limit of 20.
C2_DepthBounded ==
    last.op \in Evals => (last.st # "Overflow" /\ last.peak <= RecursionLimit)

\* C3: no vertex has both a π and a φ edge, whichever way the Universe was
\* made.
C3_NoPiWithPhi ==
    \A v \in Ids(g) : ~({"pi", "phi"} \subseteq Labels(g, v))

\* C4: no vertex has both a λ and a Δ edge.
C4_NoLambdaWithDelta ==
    \A v \in Ids(g) : ~({"lambda", "Delta"} \subseteq Labels(g, v))

\* C5: bind(e1, v1, v2, a) fails and leaves the vertices and the edges as
\* they were when v1 or v2 is missing or v1 has an edge a already; with both
\* vertices present, no edge a on v1 and a fresh edge id it succeeds and
\* v1.a is v2, whatever other labels lead from v1 to v2.
C5_BindFailsCleanly ==
    [][res'.op = "bind" =>
          LET bad == \/ res'.v1 \notin DOMAIN vertices
                     \/ res'.v2 \notin DOMAIN vertices
                     \/ edge(Store, res'.v1, res'.a) # NoVertex
          IN  /\ bad => (~res'.ok /\ vertices' = vertices /\ edges' = edges)
              /\ (~bad /\ res'.e \notin DOMAIN edges)
                     => (res'.ok /\ edge(StoreNow, res'.v1, res'.a) = res'.v2)]_vars

\* a bind has failed on a label that its source had bound already
C5_Witness ==
    /\ res.op = "bind" /\ ~res.ok
    /\ {res.v1, res.v2} \subseteq DOMAIN vertices
    /\ edge(Store, res.v1, res.a) # NoVertex
    /\ \E e \in DOMAIN edges : edges[e].from = res.v1 /\ edges[e].a # res.a

\* C6: add(v) fails on a vertex that exists and changes nothing: the vertex
\* keeps its datum, its atom and its edges.
C6_AddFailsCleanly ==
    [][(res'.op = "add" /\ res'.v1 \in DOMAIN vertices)
          => (~res'.ok /\ vertices' = vertices /\ edges' = edges)]_vars

\* an add has failed on a vertex that has a datum, an atom and an edge
C6_Witness ==
    /\ res.op = "add" /\ ~res.ok
    /\ res.v1 \in DOMAIN vertices
    /\ vertices[res.v1].data.some
    /\ vertices[res.v1].lambda # ""
    /\ \E e \in DOMAIN edges : edges[e].from = res.v1 /\ edges[e].a = "x"

BackEdges(s, v1, v2, a) ==
    IF a \in {"rho", "sigma"} THEN {}
    ELSE {<<v2, b, v1>> : b \in {b \in {"rho", "sigma"} : edge(s, v2, b) = NoVertex}}

C8_NothingRemoved ==
    /\ [](/\ hist.init \subseteq Ids(g)
          /\ \A i \in DOMAIN hist.alloc : hist.alloc[i] \in Ids(g)
          /\ hist.bound \subseteq EdgesOf(g))
    /\ [][Ids(g) \subseteq Ids(g') /\ EdgesOf(g) \subseteq EdgesOf(g')]_vars

\* an evaluation has applied the copy Φ.x to its exemplar, pulled the
\* exemplar's attribute a into the new vertex and met it again in push
C8_Witness ==
    /\ last.op \in Evals
    /\ \E nv \in Ids(g) \ hist.init :
          /\ Kid(g, nv, "a") # NoVertex
          /\ Kid(g, 1, "a") # NoVertex
          /\ Kid(g, 1, "pi") # NoVertex

\* C9: the ids that add() and the engine allocate grow strictly, none is the
\* id of a vertex that existed, so no add ever meets a duplicate, and the
\* first id of an empty Universe is 0.
C9_FreshIds ==
    /\ ~hist.dup
    /\ \A i \in DOMAIN hist.alloc :
          /\ \A v \in hist.init : v < hist.alloc[i]
          /\ \A j \in DOMAIN hist.alloc : j < i => hist.alloc[j] < hist.alloc[i]
    /\ (hist.init = {} /\ hist.alloc # <<>>) => hist.alloc[1] = 0

\* a dataize has returned after apply allocated a vertex and an atom two more
C9_Witness ==
    /\ last.op = "dataize" /\ last.st = "Ok"
    /\ Len(hist.alloc) >= 3
    /\ hist.init # {}
    /\ \E v \in hist.init : Kid(g, v, "lambda") # NoVertex

\* C10: a find or dataize that starts at depth 0 and returns Ok leaves the
\* depth at 0.
C10_DepthBackToZero ==
    (last.op \in Evals /\ last.st = "Ok" /\ last.d0 = 0) => depth = 0

\* the labels looked up on a vertex
LookupLabels == {"foo", "Delta"}

\* the name of the atom of v, v.λ being there
AtomOf(gr, v) == ToUtf8(SodgData(gr, Kid(gr, v, "lambda")).bytes)

\* v has a λ, a is not an edge of v and the atom of v is registered
AtomStands(u, v, a) ==
    /\ Kid(u.g, v, a) = NoVertex
    /\ Kid(u.g, v, "lambda") # NoVertex
    /\ SodgData(u.g, Kid(u.g, v, "lambda")).ok
    /\ ValidUtf8(SodgData(u.g, Kid(u.g, v, "lambda")).bytes)
    /\ AtomOf(u.g, v) \in u.atoms

\* how many times the atom name ran on v, by the history
TimesCalled(h, name, v) ==
    Cardinality({i \in DOMAIN h.called : h.called[i] = <<name, v>>})

\* C11: when a is looked up on a vertex v that has no edge a but has a λ, the
\* atom named by the datum of the λ target is invoked with v, once when it
\* returns Ok, and the lookup gives what the lookup of a on the vertex the
\* atom returned gives; nothing is kept on v, so the same lookup made again
\* invokes the atom again.
C11_AtomInvokedNotCached ==
    \A v \in Ids(g), a \in LookupLabels :
        AtomStands(Uni, v, a) =>
            LET c == call_atom(enter_it(Uni), v, MaxStack - 1)
                r == pf(Uni, v, a, 0, MaxStack)
            IN  /\ Len(r.u.hist.called) > Len(hist.called)
                /\ r.u.hist.called[Len(hist.called) + 1] = <<AtomOf(g, v), v>>
                /\ r = Try(c, LAMBDA to :
                           Try(fnd(to.u, to.v, a, 0, MaxStack - 1), Leaving))
                /\ r.st = "Ok" =>
                      /\ TimesCalled(r.u.hist, AtomOf(g, v), v)
                            = TimesCalled(hist, AtomOf(g, v), v) + 1
                      /\ Kid(r.u.g, v, a) = NoVertex
                      /\ TimesCalled(pf(r.u, v, a, 0, MaxStack).u.hist, AtomOf(g, v), v)
                            = TimesCalled(hist, AtomOf(g, v), v) + 2

\* a dataize of Φ.x has run the atom inc on Φ.x, and Φ.x has no Δ of its own
C11_Witness ==
    /\ last.op = "dataize" /\ last.st = "Ok"
    /\ hist.called = << <<"inc", 1>> >>
    /\ AtomStands(Uni, 1, "Delta")

\* C12: a find or dataize that meets an atom that is not registered, or an
\* atom that returns an error, returns an error value: it never panics.
C12_AtomFailureIsError ==
    last.op \in Evals => last.st # "Panic"

\* C13: dataize(loc) returns an error when the graph is empty, when loc
\* starts at a vertex id that does not exist, when the root has neither the
\* attribute asked for nor any edge to get it by, when loc.Δ does not
\* resolve, and when the vertex loc.Δ resolves to holds no datum.
C13_DataizeFails ==
    [][last'.op = "dataize" =>
          LET loc == last'.loc
              r == find(Uni, Append(loc, At("Delta")), MaxStack)
          IN  /\ IsEmpty(g) => last'.st = "Err"
              /\ (Head(loc).t = "nu" /\ Head(loc).n \notin Ids(g)) => last'.st = "Err"
              /\ (/\ ~IsEmpty(g) /\ Len(loc) > 1 /\ Head(loc) = At("Phi")
                  /\ Labels(g, 0) \cap ({loc[2].a, "Phi"} \cup GreekLabels) = {})
                     => last'.st = "Err"
              /\ r.st = "Err" => last'.st = "Err"
              /\ (r.st = "Ok" /\ ~SodgData(r.u.g, r.v).ok) => last'.st = "Err"
              /\ last'.st = "Err" => last'.bytes = <<>>]_vars

\* a dataize has failed on a locator whose Δ is a vertex without data
C13_Witness ==
    /\ last.op = "dataize" /\ last.st = "Err"
    /\ LET r == find(Uni, Append(last.loc, At("Delta")), MaxStack)
       IN  r.st = "Ok" /\ ~SodgData(r.u.g, r.v).ok

\* the Universe u with the edge of v labelled a relabelled b
Relabelled(u, v, a, b) ==
    [u EXCEPT !.g.kids[v] =
        [i \in DOMAIN @ |-> IF @[i][1] = a THEN <<b, @[i][2]>> ELSE @[i]]]

\* v has the edge by but none of the edges a, λ and φ that pf tries first
FallsTo(u, v, a, by) ==
    /\ Kid(u.g, v, by) # NoVertex
    /\ Labels(u.g, v) \cap ({a, "lambda", "phi"} \ {by}) = {}

\* C14: when v has no edge a, no λ and no φ but has γ → gv, a lookup of a on
\* v that succeeds returns the vertex t that the lookup of a on gv returns,
\* the same vertex it returns with the γ edge labelled φ, and adds to the
\* graph that lookup leaves exactly the edge v -a-> t; when the lookup on gv
\* fails the lookup on v fails and v keeps the edges it had.
C14_GammaMemoises ==
    \A v \in Ids(g), a \in LookupLabels :
        FallsTo(Uni, v, a, "gamma") =>
            LET t == fnd(enter_it(Uni), Kid(g, v, "gamma"), a, 0, MaxStack - 1)
                r == pf(Uni, v, a, 0, MaxStack)
                f == pf(Relabelled(Uni, v, "gamma", "phi"), v, a, 0, MaxStack)
            IN  /\ r.st = "Ok" =>
                      /\ t.st = "Ok" /\ r.v = t.v
                      /\ f.st = "Ok" /\ f.v = r.v
                      /\ EdgesOf(r.u.g) = EdgesOf(t.u.g) \cup {<<v, a, t.v>>}
                      /\ <<v, a, t.v>> \notin EdgesOf(t.u.g)
                /\ t.st # "Ok" => (r.st = t.st /\ Kids(r.u.g, v) = Kids(g, v))

\* an evaluation has gone through the γ of Φ.a and left Φ.a the edge foo to
\* the vertex that foo of the γ target is
C14_Witness ==
    /\ last.op \in Evals /\ last.st = "Ok"
    /\ Kid(g, 1, "gamma") # NoVertex
    /\ <<1, "foo", Kid(g, Kid(g, 1, "gamma"), "foo")>> \in hist.bound \ EdgesOf(SeedGamma)
    /\ Kid(g, 1, "foo") # NoVertex

\* C15: when v has no edge a and no λ but has φ → w, the lookup of a on v
\* gives what the lookup of a on w gives and leaves v the edges it had; on
\* the graph a.φ = b, b.foo = c, c.Δ = 41 dataize("Φ.a.foo") is the byte 0x41.
C15_PhiFallsThrough ==
    /\ [](\A v \in Ids(g), a \in LookupLabels :
            FallsTo(Uni, v, a, "phi") =>
                LET t == fnd(enter_it(Uni), Kid(g, v, "phi"), a, 0, MaxStack - 1)
                    r == pf(Uni, v, a, 0, MaxStack)
                IN  /\ r.st = t.st
                    /\ r.st = "Ok" => r.v = t.v
                    /\ r.u.g = t.u.g
                    /\ Kids(r.u.g, v) = Kids(g, v))
    /\ [][(g = SeedPhi /\ last'.op = "dataize"
              /\ last'.loc = <<At("Phi"), At("a"), At("foo")>>)
            => (last'.st = "Ok" /\ last'.bytes = <<65>>)]_vars

\* dataize("Φ.a.foo") has returned 0x41 through the φ of Φ.a, which has no
\* foo of its own
C15_Witness ==
    /\ last.op = "dataize" /\ last.st = "Ok" /\ last.bytes = <<65>>
    /\ last.loc = <<At("Phi"), At("a"), At("foo")>>
    /\ FallsTo(Uni, Kid(g, 0, "a"), "foo", "phi")

\* C16: a find(loc) made again right after a successful find(loc) returns
\* the same vertex.
C16_FindRepeats ==
    (last.op = "find" /\ last.st = "Ok") =>
        LET r == find(Uni, last.loc, MaxStack)
        IN  r.st = "Ok" /\ r.v = last.v

\* C17: with no atoms registered a dataize(loc) made again right after a
\* dataize(loc) that returned has the same outcome: the same bytes, or both
\* fail.
C17_DataizeRepeats ==
    (last.op = "dataize" /\ atoms = {} /\ alive) =>
        LET r == dataize(Uni, last.loc, MaxStack)
        IN  /\ r.st = last.st
            /\ r.st = "Ok" => r.v = last.bytes

\* a dataize with no atoms has returned data after it added vertices or
\* edges to the graph
C17_Witness ==
    /\ last.op = "dataize" /\ last.st = "Ok" /\ atoms = {}
    /\ last.bytes # <<>>
    /\ hist.alloc # <<>>
    /\ \E v \in hist.init : Kid(g, v, "pi") # NoVertex

\* C18: the tokens Φ and Q and the jump ν0 all lead to the root: a
\* dataize("Q" + tail) and a dataize("ν0" + tail) have the outcome that
\* dataize("Φ" + tail) has on the same Universe.
C18_RootTokens ==
    [][(last'.op = "dataize" /\ Head(last'.loc) \in {At("Q"), Nu(0)}) =>
          LET r == dataize(Uni, <<At("Phi")>> \o Tail(last'.loc), MaxStack)
          IN  /\ last'.st = r.st
              /\ r.st = "Ok" => last'.bytes = r.v]_vars

\* C19: ξ is an identity step: when find(loc) resolves, find(loc + ".ξ")
\* returns the same vertex and leaves the graph that find(loc) leaves.
C19_XiIsIdentity ==
    [][(/\ last'.op = "find" /\ Len(last'.loc) > 1
        /\ last'.loc[Len(last'.loc)] = At("xi")) =>
          LET r == find(Uni, SubSeq(last'.loc, 1, Len(last'.loc) - 1), MaxStack)
          IN  r.st = "Ok" => (last'.st = "Ok" /\ last'.v = r.v /\ g' = r.u.g)]_vars

\* C20: after a successful apply(v1, v2) = nv, for each edge (a, k) of v2 that
\* is neither π nor ψ, nv has an edge to k under the label that tie(nv, a)
\* gave when push came to it, and nv has no π edge; checked for every v2 with
\* a π edge and v1 its target, as dd applies them.
C20_ApplyStructural ==
    \A v2 \in Ids(g) :
        Kid(g, v2, "pi") # NoVertex =>
            LET v1 == Kid(g, v2, "pi")
                r == apply(Uni, v1, v2)
                nv == NextId(g)
                pulled == pull(GAdd(Uni, nv).u, nv, v1)
                ks == Kids(g, v2)
            IN  r.st = "Ok" =>
                  /\ r.v = nv
                  /\ Kid(r.u.g, nv, "pi") = NoVertex
                  /\ \A i \in DOMAIN ks :
                        ks[i][1] \notin {"pi", "psi"} =>
                            LET before == push_from(pulled.u, nv, SubSeq(ks, 1, i - 1), 1)
                                t == tie(before.u, nv, ks[i][1])
                            IN  t.st = "Ok" /\ Kid(r.u.g, nv, t.v) = ks[i][2]

\* an evaluation has applied the exemplar of Φ.x to Φ.x, and the new vertex
\* has the Δ of Φ.x
C20_Witness ==
    /\ last.op \in Evals
    /\ Kid(g, 1, "pi") # NoVertex /\ Kid(g, 1, "Delta") # NoVertex
    /\ \E nv \in Ids(g) \ hist.init :
          /\ Kid(g, nv, "Delta") = Kid(g, 1, "Delta")
          /\ Kid(g, nv, "pi") = NoVertex

\* C21: dataize(loc) returns the datum that put stored on the vertex loc
\* resolves to, when that vertex has no Δ edge.
C21_DatumOnTheVertex ==
    [][last'.op = "dataize" =>
          LET r == find(Uni, last'.loc, MaxStack)
          IN  (/\ r.st = "Ok" /\ r.v \in Ids(g)
               /\ g.data[r.v].some /\ Kid(r.u.g, r.v, "Delta") = NoVertex)
                  => (last'.st = "Ok" /\ last'.bytes = g.data[r.v].bytes)]_vars

\* the edges of the store that leave v
ArcsFrom(s, v) == {arc \in Arcs(s) : arc[1] = v}

\* the back-edges of v2 are those of its first binder
BackEdgesStay(s, t, v1, v2) ==
    \A b \in {"rho", "sigma"} :
        edge(t, v2, b) = IF edge(s, v2, b) = NoVertex THEN v1 ELSE edge(s, v2, b)

\* C22, as claimed: a successful bind of a label other than ρ and 𝜎 gives v2
\* the back-edges ρ and 𝜎 to v1, each only if v2 had none, and the source v1
\* gains no edge other than a.
C22_SourceGainsOnlyA ==
    [][(res'.op = "bind" /\ res'.ok /\ res'.a \notin {"rho", "sigma"}) =>
          /\ BackEdgesStay(Store, StoreNow, res'.v1, res'.v2)
          /\ ArcsFrom(StoreNow, res'.v1)
                = ArcsFrom(Store, res'.v1) \cup {<<res'.v1, res'.a, res'.v2>>}]_vars

\* C22, amended: the same, but the source gains no edge other than a only
\* when it is not its own target: a vertex bound to itself gets the
\* back-edges it lacks, to itself.
C22_BackEdgesOfFirstBinder ==
    [][(res'.op = "bind" /\ res'.ok /\ res'.a \notin {"rho", "sigma"}) =>
          /\ BackEdgesStay(Store, StoreNow, res'.v1, res'.v2)
          /\ ArcsFrom(StoreNow, res'.v1)
                = ArcsFrom(Store, res'.v1) \cup {<<res'.v1, res'.a, res'.v2>>}
                    \cup IF res'.v1 = res'.v2
                         THEN BackEdges(Store, res'.v1, res'.v2, res'.a) ELSE {}]_vars

\* ν2 was bound from ν0 and then from ν1: its ρ and 𝜎 still lead to ν0, and
\* the root has neither
C22_Witness ==
    /\ res.op = "bind" /\ res.ok /\ res.v1 = 1 /\ res.v2 = 2
    /\ res.a \notin {"rho", "sigma"}
    /\ edge(Store, 2, "rho") = 0 /\ edge(Store, 2, "sigma") = 0
    /\ \E a \in StoreLabels : <<0, a, 2>> \in Arcs(Store)
    /\ edge(Store, 0, "rho") = NoVertex /\ edge(Store, 0, "sigma") = NoVertex

\* the vertex v carries a search atom and binds neither k nor π nor φ
SearchesFor(s, v, k) ==
    /\ v \in DOMAIN s.vertices
    /\ s.vertices[v].lambda # ""
    /\ IsSearch(s.vertices[v].lambda_name)
    /\ k.t = "a"
    /\ k.a \notin {"Phi", "Q", "xi", "load", "save"}
    /\ ~(k.a = "Delta" /\ s.vertices[v].data.some)
    /\ edge(s, v, k.a) = NoVertex
    /\ edge(s, v, "pi") = NoVertex
    /\ edge(s, v, "phi") = NoVertex

\* the ξ of every ▲ is the ξ of the ▼ it closes
RECURSIVE Nested(_, _)
Nested(marks, saved) ==
    IF marks = <<>> THEN TRUE
    ELSE IF Head(marks)[1] = "save"
        THEN Nested(Tail(marks), Append(saved, Head(marks)[2]))
    ELSE /\ saved # <<>>
         /\ Head(marks)[2] = saved[Len(saved)]
         /\ Nested(Tail(marks), SubSeq(saved, 1, Len(saved) - 1))

\* C23: a lookup of k on a vertex that carries the search atom S/L and binds
\* neither k nor π nor φ gives what the lookup of k gives on the vertex L
\* resolves to, so that find("Φ.a.c") is find("Φ.b.c") when a carries S/Φ.b;
\* and every ▲ puts back the ξ that the ▼ before L had saved.
C23_SearchContinuesAtL ==
    [][res'.op = "find" =>
          /\ Nested(res'.marks, <<>>)
          /\ SearchesFor(Store, res'.v1, Head(res'.loc)) =>
                LET at == store_find(Store, registry, res'.v1,
                                     Split(SearchLoc(vertices[res'.v1].lambda_name)))
                IN  IF at.st = "Ok"
                    THEN /\ res'.st = store_find(Store, registry, at.v, res'.loc).st
                         /\ res'.to = store_find(Store, registry, at.v, res'.loc).v
                    ELSE res'.st # "Ok"
          /\ (/\ res'.loc = <<At("Phi"), At("a"), At("c")>>
              /\ SearchesFor(Store, edge(Store, 0, "a"), At("c"))
              /\ vertices[edge(Store, 0, "a")].lambda_name = "S/Phi.b")
                => /\ res'.st = store_find(Store, registry, res'.v1,
                                           <<At("Phi"), At("b"), At("c")>>).st
                   /\ res'.to = store_find(Store, registry, res'.v1,
                                           <<At("Phi"), At("b"), At("c")>>).v]_vars

\* find(ν1, "Φ.a.c") has found c through the search atom of a and has put
\* the saved ξ back
C23_Witness ==
    /\ res.op = "find" /\ res.st = "Ok"
    /\ res.loc = <<At("Phi"), At("a"), At("c")>>
    /\ res.to = 3
    /\ res.marks = <<<<"save", 1>>, <<"load", 1>>>>
\* the attributes looked up on a copied vertex
CopyLabels == {"y", "c", "x", "rho"}

\* C24: after copy(e1, v3, e2) of e1 = v1 -a-> v2, find(v1, "a.π") is v2 and
\* every attribute y that find reached as v1.a.y is reached still, at the
\* same vertex.
C24_CopyKeepsAttributes ==
    [][(res'.op = "copy" /\ res'.ok) =>
          LET v1 == edges[res'.e].from
              v2 == edges[res'.e].to
              a == edges[res'.e].a
          IN  /\ store_find(StoreNow, registry, v1, <<At(a), At("pi")>>).st = "Ok"
              /\ store_find(StoreNow, registry, v1, <<At(a), At("pi")>>).v = v2
              /\ \A y \in CopyLabels :
                     store_find(Store, registry, v1, <<At(a), At(y)>>).st = "Ok"
                        => /\ store_find(StoreNow, registry, v1, <<At(a), At(y)>>).st = "Ok"
                           /\ store_find(StoreNow, registry, v1, <<At(a), At(y)>>).v
                                 = store_find(Store, registry, v1, <<At(a), At(y)>>).v]_vars
\* the universe that was saved, as load has just rebuilt it
Loaded == res'.op = "load"

SameResult(r1, r2) ==
    /\ r1.st = r2.st
    /\ r1.st = "Ok" => r1.s.vertices[r1.v].data = r2.s.vertices[r2.v].data

\* the atoms of a universe are search atoms
SearchAtomsOnly(s) ==
    \A v \in DOMAIN s.vertices :
        \/ s.vertices[v].lambda_name = ""
        \/ IsSearch(s.vertices[v].lambda_name)

\* load(save(u)) has the vertices, the data, the atom names and the edges of u,
\* and an atom on every vertex that has an atom name
SameStructure ==
    /\ DOMAIN vertices' = DOMAIN file.of.s.vertices
    /\ \A v \in DOMAIN vertices' :
          /\ vertices'[v].data = file.of.s.vertices[v].data
          /\ vertices'[v].lambda_name = file.of.s.vertices[v].lambda_name
          /\ vertices'[v].lambda_name # "" => vertices'[v].lambda # ""
    /\ edges' = file.of.s.edges

\* dataize of every locator gives on load(save(u)) what it gave on u
SameDataize ==
    \A loc \in OldLocators :
        SameResult(store_dataize(StoreNow, registry', loc),
                   store_dataize(file.of.s, file.of.reg, loc))

\* C25 as stated: for every universe u, load(save(u)) has the vertices, edges
\* and data of u, every vertex with an atom name has an atom again, and
\* dataize of any locator gives what it gave on u.
C25_LoadOfSaveDataizesAlike ==
    [][Loaded => (SameStructure /\ SameDataize)]_vars

\* C25 amended: the same, dataize being the same for the universes whose
\* atoms are search atoms.
C25_LoadOfSave ==
    [][Loaded => /\ SameStructure
                 /\ SearchAtomsOnly(file.of.s) => SameDataize]_vars

\* the universe of saves_and_loads has been loaded, and Q.foo.Δ is found
\* through the search atom of ν1
C25_Witness ==
    /\ res.op = "load"
    /\ 1 \in DOMAIN vertices /\ vertices[1].lambda_name = "S/Q"
    /\ vertices[1].lambda # ""
    /\ store_dataize(Store, registry, <<At("Q"), At("foo"), At("Delta")>>).st = "Ok"
\* the vertices the graph had before the script was deployed
SetupIds == DOMAIN deploy_to(NoGmi, EmptyStore, {}, ScriptSetup).s.vertices

\* C26: in a deployment two different $names used for vertices have
\* different ids, and the id of a $name is not that of a vertex the graph had
\* before (every occurrence of a name has the id Gmi.vars keeps for it).
C26_NamesAreFresh ==
    res.op = "deploy" =>
        /\ \A m, n \in gmi.used : m # n => gmi.vars[m] # gmi.vars[n]
        /\ \A n \in gmi.used : gmi.vars[n] \notin SetupIds

\* C27: after set_root(r) with r other than 0, the foo a script binds is an
\* attribute of r, and the vertex 0 gets no foo.
C27_RootOverride ==
    (res.op = "deploy" /\ gmi.root \notin {NoVertex, 0}) =>
        \A arc \in Arcs(Store) : arc[2] = "foo" => arc[1] = gmi.root
\* the integer the locator dataizes to, when it does
IntAt(loc) == BytesToI64(dataize(Uni, loc, MaxStack).v)

IsInt(loc) ==
    /\ dataize(Uni, loc, MaxStack).st = "Ok"
    /\ CanI64(dataize(Uni, loc, MaxStack).v)

C30_DumpBeforeReport ==
    /\ (cli.flag /\ cli.exit # "none") => cli.dumped
    /\ cli.dumped => (cli.pc \in {"dumped", "done"} /\ cli.image = g)
    /\ (cli.pc = "done" /\ last.st # "Ok") => cli.exit = "failure"
    /\ cli.pc # "done" => cli.exit = "none"
\* the vertices at the end of a path of at most n edges from the vertices vs,
\* none of the edges a ρ or a σ
RECURSIVE Within(_, _, _)
Within(gr, vs, n) ==
    IF n = 0 THEN vs
    ELSE Within(gr,
                vs \cup {e[3] : e \in {d \in EdgesOf(gr) :
                                         d[1] \in vs /\ d[2] \notin {"rho", "sigma"}}},
                n - 1)

\* C28: slice(loc) returns a graph whose vertices are exactly those reached
\* from the vertex of loc along edges that are neither ρ nor σ, each with
\* the id and the data it has in the universe and with those of its edges
\* that are neither ρ nor σ, and the graph of the universe stays as it was.
C28_SliceIsTheKeptPart ==
    [][(last'.op = "slice" /\ cut'.st = "Ok") =>
          /\ Ids(cut'.g) = Within(g, {cut'.root}, Cardinality(Ids(g)))
          /\ \A v \in Ids(cut'.g) :
                /\ cut'.g.data[v] = g.data[v]
                /\ EdgesOf(cut'.g) =
                     {e \in EdgesOf(g) : e[1] \in Ids(cut'.g)
                                           /\ e[2] \notin {"rho", "sigma"}}
          /\ g' = g]_vars

\* a slice of Φ.x has left out the ρ of the atom and the vertices behind it
C28_Witness ==
    /\ last.op = "slice" /\ cut.st = "Ok"
    /\ cut.loc = <<Nu(0), At("x")>>
    /\ Kid(g, cut.root, "rho") # NoVertex
    /\ Kid(g, cut.root, "rho") \notin Ids(cut.g)
    /\ Cardinality(Ids(cut.g)) > 1

\* the Universe that apply(v1, .) has when pull is over: the new vertex added
\* and the edges of v1 pulled into it
Pulled(v1) == pull(GAdd(Uni, NextId(g)).u, NextId(g), v1)

\* the Universe that apply(v1, v2) has when push comes to the i-th edge of v2
PushedBefore(v1, v2, i) ==
    push_from(Pulled(v1).u, NextId(g), SubSeq(Kids(g, v2), 1, i - 1), 1)

\* C31: when push comes to an edge (a, k) of the copy with a other than ρ, σ
\* (and π, ψ, which push skips), down binds it only if a is Δ and nv has no Δ,
\* or nv.a points to a nil, or a is positional; in every other case tie, down
\* and the whole apply fail with an error, and whatever down does, every
\* edge of nv to a vertex that is not a nil stays as it was.
C31_TieGuardsPush ==
    \A v1 \in Ids(g), v2 \in Ids(g) :
        Pulled(v1).st = "Ok" =>
            \A i \in DOMAIN Kids(g, v2) :
                LET a == Kids(g, v2)[i][1]
                    k == Kids(g, v2)[i][2]
                    nv == NextId(g)
                    b == PushedBefore(v1, v2, i)
                    free == a = "Delta" /\ Kid(b.u.g, nv, a) = NoVertex
                    void == Kid(b.u.g, nv, a) # NoVertex /\ nil(b.u, Kid(b.u.g, nv, a))
                    d == down(b.u, nv, k, a)
                IN  (a \notin {"rho", "sigma", "pi", "psi"} /\ b.st = "Ok") =>
                        /\ d.st = "Ok" => (free \/ void \/ IsAlpha(a))
                        /\ (~free /\ ~void /\ ~IsAlpha(a)) =>
                               /\ tie(b.u, nv, a).st = "Err"
                               /\ d.st = "Err"
                               /\ apply(Uni, v1, v2).st = "Err"
                        /\ \A j \in DOMAIN Kids(b.u.g, nv) :
                               ~nil(b.u, Kids(b.u.g, nv)[j][2]) =>
                                   Kid(d.u.g, nv, Kids(b.u.g, nv)[j][1])
                                       = Kids(b.u.g, nv)[j][2]

\* an evaluation has failed in apply: Φ.x gives foo a value, the new vertex
\* has the foo pulled from the exemplar, which is no nil, and kept it
C31_Witness ==
    /\ last.op \in Evals /\ last.st = "Err"
    /\ Kid(g, 1, "pi") # NoVertex /\ Kid(g, 1, "foo") # NoVertex
    /\ \E nv \in Ids(g) \ hist.init :
          /\ Kid(g, nv, "foo") \notin {NoVertex, Kid(g, 1, "foo")}
          /\ ~nil(Uni, Kid(g, nv, "foo"))

\* C32: when tie(nv, a) gives a label that nv binds already (a slot that
\* points to a nil, or the ρ or σ pulled from the exemplar), down binds that
\* label of nv to the target k of the copy: down is Ok and nv then has exactly
\* one edge of that label, and it points to k.
C32_DownRebinds ==
    \A v1 \in Ids(g), v2 \in Ids(g) :
        Pulled(v1).st = "Ok" =>
            \A i \in DOMAIN Kids(g, v2) :
                LET a == Kids(g, v2)[i][1]
                    k == Kids(g, v2)[i][2]
                    nv == NextId(g)
                    b == PushedBefore(v1, v2, i)
                    t == tie(b.u, nv, a)
                    d == down(b.u, nv, k, a)
                IN  (a \notin {"pi", "psi"} /\ b.st = "Ok" /\ t.st = "Ok"
                        /\ Kid(b.u.g, nv, t.v) # NoVertex) =>
                        /\ d.st = "Ok"
                        /\ Kid(d.u.g, nv, t.v) = k
                        /\ Cardinality({j \in DOMAIN Kids(d.u.g, nv) :
                                           Kids(d.u.g, nv)[j][1] = t.v}) = 1

\* the edges of v in gr as a set of <<label, target>>
KidSet(gr, v) == {Kids(gr, v)[i] : i \in DOMAIN Kids(gr, v)}

\* C33: pull(nv, v1) into a fresh nv succeeds; an edge σ, β or π of v1 gives
\* nv nothing; an edge (a, k) with a one of λ, Δ, ρ, or with k a nil, gives nv
\* the edge a -> k; any other edge gives nv an edge a -> t to a new vertex t
\* whose edges are exactly ρ -> nv, ψ -> nv and π -> k, one t per edge; nv has
\* no other edge, and every vertex there was keeps exactly its edges.
C33_PullCopiesEdges ==
    \A v1 \in Ids(g) :
        LET nv == NextId(g)
            p == Pulled(v1)
            ks == Kids(g, v1)
            direct(i) == ks[i][1] \in {"lambda", "Delta", "rho"}
                            \/ nil(Uni, ks[i][2])
            skipped(i) == ks[i][1] \in {"sigma", "beta", "pi"}
            fresh == Ids(p.u.g) \ (Ids(g) \cup {nv})
        IN  /\ p.st = "Ok"
            /\ \A w \in Ids(g) : Kids(p.u.g, w) = Kids(g, w)
            /\ Labels(p.u.g, nv) = {ks[i][1] : i \in {j \in DOMAIN ks : ~skipped(j)}}
            /\ Len(Kids(p.u.g, nv)) = Cardinality(Labels(p.u.g, nv))
            /\ \A i \in DOMAIN ks :
                  (~skipped(i)) =>
                      IF direct(i) THEN Kid(p.u.g, nv, ks[i][1]) = ks[i][2]
                      ELSE LET t == Kid(p.u.g, nv, ks[i][1])
                           IN  /\ t \in fresh
                               /\ Len(Kids(p.u.g, t)) = 3
                               /\ KidSet(p.u.g, t) = {<<"rho", nv>>, <<"psi", nv>>,
                                                      <<"pi", ks[i][2]>>}
            /\ Cardinality(fresh)
                  = Cardinality({i \in DOMAIN ks : ~skipped(i) /\ ~direct(i)})

\* an evaluation has copied an object: a new vertex has an attribute that is
\* a new vertex with ρ and ψ back to it and π to a vertex of the graph given
C33_Witness ==
    /\ last.op \in Evals
    /\ \E nv \in Ids(g) \ hist.init, t \in Ids(g) \ hist.init :
          /\ \E a \in Labels(g, nv) : Kid(g, nv, a) = t
          /\ Len(Kids(g, t)) = 3
          /\ Kid(g, t, "rho") = nv /\ Kid(g, t, "psi") = nv
          /\ Kid(g, t, "pi") \in hist.init

\* the ASCII-named edges of v, in the order kids enumerates them
AsciiKids(gr, v) == SelectSeq(Kids(gr, v), LAMBDA e : IsAscii(e[1]))

\* C34: when push comes to an edge (α<n>, k) of the copy, and the n-th
\* ASCII-named edge of nv exists and points to a nil, down binds k on nv under
\* the label of that edge; when that edge points to no nil, or nv has no more
\* than n ASCII-named edges, tie returns an error and apply fails with it; and
\* after an apply that pushed α0 and α1, their targets are under two labels.
C34_PositionalTie ==
    \A v1 \in Ids(g), v2 \in Ids(g) :
        Pulled(v1).st = "Ok" =>
            /\ \A i \in DOMAIN Kids(g, v2) :
                  LET a == Kids(g, v2)[i][1]
                      k == Kids(g, v2)[i][2]
                      nv == NextId(g)
                      b == PushedBefore(v1, v2, i)
                      slots == AsciiKids(b.u.g, nv)
                      n == AlphaIndex(a) + 1
                      d == down(b.u, nv, k, a)
                  IN  (IsAlpha(a) /\ b.st = "Ok") =>
                          IF n <= Len(slots) /\ nil(b.u, slots[n][2])
                          THEN d.st = "Ok" /\ Kid(d.u.g, nv, slots[n][1]) = k
                          ELSE /\ tie(b.u, nv, a).st = "Err"
                               /\ apply(Uni, v1, v2).st = "Err"
            /\ (/\ apply(Uni, v1, v2).st = "Ok"
                 /\ {"alpha0", "alpha1"} \subseteq Labels(g, v2)) =>
                    \E l0 \in Labels(apply(Uni, v1, v2).u.g, NextId(g)),
                       l1 \in Labels(apply(Uni, v1, v2).u.g, NextId(g)) :
                        /\ l0 # l1
                        /\ Kid(apply(Uni, v1, v2).u.g, NextId(g), l0) = Kid(g, v2, "alpha0")
                        /\ Kid(apply(Uni, v1, v2).u.g, NextId(g), l1) = Kid(g, v2, "alpha1")

\* the Universe without the edges of v that have a label of ls
Without(u, v, ls) ==
    [u EXCEPT !.g.kids[v] = SelectSeq(@, LAMBDA e : e[1] \notin ls)]

\* two results agree in status, value and atoms called
SameOutcome(r1, r2) ==
    r1.st = r2.st /\ r1.v = r2.v /\ r1.u.hist.called = r2.u.hist.called

PfLabels == {"foo", "b", "Delta"}

\* C35: pf(v, a) takes the first of: the edge a of v (returned as it is: no
\* atom is called and the graph stays as it was); the atom of v (whatever φ
\* and γ v has, and an Ok result has called an atom); φ (whatever γ v has,
\* and v gets no edge a); γ (an Ok result is bound as the edge a of v); and
\* with none of them it is an error that leaves the graph as it was.
C35_PfRuleOrder ==
    \A v \in Ids(g), a \in PfLabels :
        LET r == pf(Uni, v, a, 0, MaxStack)
        IN  IF Kid(g, v, a) # NoVertex
                THEN /\ r.st = "Ok" /\ r.v = Kid(g, v, a)
                     /\ r.u.g = g /\ r.u.hist.called = hist.called
            ELSE IF Kid(g, v, "lambda") # NoVertex
                THEN /\ SameOutcome(r, pf(Without(Uni, v, {"phi", "gamma"}), v, a, 0,
                                          MaxStack))
                     /\ r.st = "Ok" => Len(r.u.hist.called) > Len(hist.called)
            ELSE IF Kid(g, v, "phi") # NoVertex
                THEN /\ SameOutcome(r, pf(Without(Uni, v, {"gamma"}), v, a, 0, MaxStack))
                     /\ Kid(r.u.g, v, a) = NoVertex
            ELSE IF Kid(g, v, "gamma") # NoVertex
                THEN r.st = "Ok" => Kid(r.u.g, v, a) = r.v
            ELSE r.st = "Err" /\ r.u.g = g

\* a find has gone through a vertex with φ and γ: it found the foo of the φ
\* target, and the vertex has no edge foo
C35_Witness ==
    /\ last.op = "find" /\ last.st = "Ok"
    /\ last.loc = <<At("Phi"), At("x"), At("foo")>>
    /\ Kid(g, 1, "phi") # NoVertex /\ Kid(g, 1, "gamma") # NoVertex
    /\ last.v = Kid(g, Kid(g, 1, "phi"), "foo")
    /\ Kid(g, 1, "foo") = NoVertex

\* the ψ a caller may pass to dd: the root, as a top-level find does, or the
\* exemplar of the seeds
PsiGiven == {0, 2}

\* two results of dd agree in status, value and vertices
SameDispatch(r1, r2) ==
    r1.st = r2.st /\ r1.v = r2.v /\ Ids(r1.u.g) = Ids(r2.u.g)

\* C36: dd(v, ψ) on a vertex with none of ε, ξ, β, π is v and leaves the
\* graph as it was; with ε it is the dd of the ε target, with the graph that
\* one leaves, whatever ξ, β and π the vertex has; with ξ (and no ε) its β and
\* π make no difference, with β (and no ε, ξ) its π makes none; and where no
\* vertex of the graph has π and no atom ran, dd adds no vertex.
C36_DdCopiesOnlyOnPi ==
    \A v \in Ids(g), psi \in PsiGiven \cap Ids(g) :
        LET r == dd(Uni, v, psi, MaxStack)
        IN  /\ IF Kid(g, v, "eps") # NoVertex
                   THEN LET e == dd(enter_it(Uni), Kid(g, v, "eps"),
                                    psi_of(Uni, v, psi), MaxStack - 1)
                        IN  /\ r.st = e.st /\ r.v = e.v /\ r.u.g = e.u.g
                            /\ SameDispatch(r, dd(Without(Uni, v, {"xi", "beta", "pi"}),
                                                  v, psi, MaxStack))
               ELSE IF Kid(g, v, "xi") # NoVertex
                   THEN SameDispatch(r, dd(Without(Uni, v, {"beta", "pi"}), v, psi,
                                           MaxStack))
               ELSE IF Kid(g, v, "beta") # NoVertex
                   THEN SameDispatch(r, dd(Without(Uni, v, {"pi"}), v, psi, MaxStack))
               ELSE IF Kid(g, v, "pi") # NoVertex THEN TRUE
               ELSE r.st = "Ok" /\ r.v = v /\ r.u.g = g
            /\ (/\ \A w \in Ids(g) : Kid(g, w, "pi") = NoVertex
                 /\ r.u.hist.called = hist.called) => Ids(r.u.g) = Ids(g)

\* a find has gone along the ε chain of Φ.x, which has π too, to the vertex
\* the chain ends in, and the graph has the vertices it had
C36_Witness ==
    /\ last.op = "find" /\ last.st = "Ok"
    /\ Kid(g, 1, "eps") # NoVertex /\ Kid(g, 1, "pi") # NoVertex
    /\ Kid(g, Kid(g, 1, "eps"), "eps") # NoVertex
    /\ last.v = Kid(g, Kid(g, Kid(g, 1, "eps"), "eps"), "foo")
    /\ Ids(g) = hist.init /\ EdgesOf(g) = hist.bound

\* C40: dd(v, ψ) on a vertex with ξ (and no ε) is the dd of the active ψ,
\* the target of the ψ edge of v if it has one and else the ψ given, with that
\* ψ passed on; the relay looks an attribute up with ψ = ν0, so on a ξ vertex
\* with no ψ edge it gives what the lookup on the root gives; and fnd(v, a, ψ)
\* hands to pf the ψ it was given, whatever ψ edge v has.
C40_XiDispatchesPsi ==
    \A v \in Ids(g), psi \in PsiGiven \cap Ids(g) :
        LET active == IF Kid(g, v, "psi") # NoVertex THEN Kid(g, v, "psi") ELSE psi
            r == dd(Uni, v, psi, MaxStack)
            x == dd(enter_it(Uni), active, active, MaxStack - 1)
            d == dd(enter_it(Uni), v, psi, MaxStack - 1)
        IN  /\ (Kid(g, v, "xi") # NoVertex /\ Kid(g, v, "eps") = NoVertex) =>
                   r.st = x.st /\ r.v = x.v /\ r.u.g = x.u.g
            /\ \A a \in PfLabels :
                  /\ (/\ Kid(g, v, "xi") # NoVertex /\ Kid(g, v, "eps") = NoVertex
                       /\ Kid(g, v, "psi") = NoVertex) =>
                         LET re == mut_re(Uni, v, a, MaxStack)
                             root == fnd(Uni, 0, a, 0, MaxStack)
                         IN  /\ re.st = root.st /\ re.u.g = root.u.g
                             /\ re.st = "Ok" => re.v = <<Nu(root.v)>>
                  /\ d.st = "Ok" =>
                         LET f == fnd(Uni, v, a, psi, MaxStack)
                             t == pf(d.u, d.v, a, psi, MaxStack - 1)
                         IN  f.st = t.st /\ f.v = t.v /\ f.u.g = t.u.g

\* a find has met Φ.x, a ξ with no ψ, and found foo on the root
C40_Witness ==
    /\ last.op = "find" /\ last.st = "Ok"
    /\ last.loc = <<At("Phi"), At("x"), At("foo")>>
    /\ Kid(g, 1, "xi") # NoVertex /\ Kid(g, 1, "psi") = NoVertex
    /\ Kid(g, 1, "foo") = NoVertex
    /\ last.v = Kid(g, 0, "foo")

\* C37: a find that is called ends, with a vertex or with a failure; its
\* loop never goes round more than 200 times before the turn that ends it, and
\* never has processed more than 200 steps of the locator.
C37_FindEnds ==
    /\ [](walk.turns <= JumpsLimit + 1 /\ walk.jumps <= JumpsLimit)
    /\ <>(walk.st \in {"Ok", "Err", "Panic"})

\* a find on a cycle has failed after 200 steps
C37_Witness ==
    /\ walk.st = "Err" /\ walk.jumps = JumpsLimit /\ walk.turns = JumpsLimit + 1
    /\ walk.locator # <<>>

\* no vertex of the store has two outgoing edges with one label
OneEdgePerLabel(s) ==
    \A e1 \in DOMAIN s.edges, e2 \in DOMAIN s.edges :
        (s.edges[e1].from = s.edges[e2].from /\ s.edges[e1].a = s.edges[e2].a) => e1 = e2

\* C38: a copy(e1, v3, e2) with fresh v3 and e2 that succeeds on a universe
\* with no inconsistencies and no two edges of one label on a vertex leaves a
\* universe with no inconsistencies and no two edges of one label on a vertex.
C38_CopyKeepsConsistency ==
    [][(/\ res'.op = "copy" /\ res'.ok
        /\ inconsistencies(Store) = {} /\ OneEdgePerLabel(Store)) =>
          inconsistencies(StoreNow) = {} /\ OneEdgePerLabel(StoreNow)]_vars

\* the function that atom(v, m) attaches when the registry is reg
Attached(m, reg) ==
    IF IsSearch(m) THEN "search" ELSE IF m \in reg THEN m ELSE "not_implemented_yet"

\* what C39 says of atom, register and find: atom(v, m) on a vertex succeeds
\* and attaches what the registry holds for m at that time; register changes
\* no vertex; find leaves a vertex that has a function as it is; and a find
\* that comes to need the atom of x calls what is attached: with dummy it
\* is ν0, with the atom "not implemented yet" it fails
AtomAtCallTime ==
    /\ (res'.op = "atom" /\ res'.v1 \in DOMAIN vertices) =>
          /\ res'.ok
          /\ vertices'[res'.v1].lambda = Attached(res'.a, registry)
          /\ vertices'[res'.v1].lambda_name = res'.a
    /\ res'.op = "register" => vertices' = vertices /\ edges' = edges
    /\ res'.op = "find" =>
          \A v \in DOMAIN vertices :
              vertices[v].lambda # "" => vertices'[v] = vertices[v]
    /\ (res'.op = "find" /\ res'.loc = <<At("x"), At("y")>>) =>
          /\ vertices[1].lambda = "not_implemented_yet" => res'.st = "Err"
          /\ vertices[1].lambda = "dummy" => res'.st = "Ok" /\ res'.to = 0

\* C39 as stated: atom, register and find as above, and after save and load a
\* vertex with the atom name m has what the registry held for m when the
\* universe was loaded.
C39_AtomFromRegistryAtCall ==
    [][/\ AtomAtCallTime
       /\ res'.op = "load" =>
             \A v \in DOMAIN vertices' :
                 vertices'[v].lambda_name # "" =>
                     vertices'[v].lambda = Attached(vertices'[v].lambda_name, registry)]_vars

\* C39, amended: atom, register and find as above, and after save and load a
\* vertex with the atom name m has what the atoms that load registers itself
\* hold for m.
C39_AtomFromRegistryOrLoad ==
    [][/\ AtomAtCallTime
       /\ res'.op = "load" =>
             \A v \in DOMAIN vertices' :
                 vertices'[v].lambda_name # "" =>
                     vertices'[v].lambda = Attached(vertices'[v].lambda_name, StdAtoms)]_vars

\* dummy was attached to x before it was registered, then registered, the
\* universe saved and loaded: x has the atom "not implemented yet" still
C39_Witness ==
    /\ res.op = "load"
    /\ "dummy" \in file.of.reg
    /\ file.of.s.vertices[1].lambda = "not_implemented_yet"
    /\ vertices[1].lambda_name = "dummy"
    /\ vertices[1].lambda = "not_implemented_yet"

====
